---- MODULE Spec2Model ----
(***************************************************************************)
(* Channel identity matching and EPG consolidation of home-epg.            *)
(*                                                                         *)
(* A string is a sequence of one-character strings.  The normalizers, the  *)
(* similarity scores and the matching, consolidation and emission          *)
(* functions are operators translated from the Python sources; the state   *)
(* machines below drive them on bounded inputs.                            *)
(***************************************************************************)
EXTENDS Integers, Sequences, FiniteSets, TLC

VARIABLES
    fuzzLib,            \* which fuzz implementation the import produced
    channel,            \* find_best_match: the playlist channel
    epg_channels,       \* find_best_match: the guide channel list
    matchLog,           \* find_best_match: threshold -> returned value
    playlist_channels,  \* pipeline: the loaded playlist records
    epg_files,          \* pipeline: the EPG documents, in processing order
    threshold,          \* pipeline: the matching threshold
    only_perfect,       \* pipeline: the onlyPerfect flag
    pc,                 \* pipeline / catalog: position of the run
    file_idx,           \* process_epg_files: next document to match
    all_matches,        \* process_epg_files: per-document results, concatenated
    match_idx,          \* process_epg_files: next result to fold
    consolidated_matches, \* process_epg_files: the insertion-ordered dict
    final_matches,      \* the match list handed to the emitter
    output,             \* what the emitter wrote
    emitter,            \* filtered pipeline: the module whose emitter runs
    channel_mappings,   \* catalog: insertion-ordered index (normalized key, entry)
    units,              \* catalog: state of every unit of work of the pool
    futures,            \* catalog: result of every finished unit
    matches,            \* catalog: the list match_channels returns
    content,            \* load_playlist_channels: the text of the playlist file
    country_prefix,     \* load_playlist_channels: the prefix argument
    line_i,             \* load_playlist_channels: the loop variable i
    loader_channels,    \* load_playlist_channels: the list "channels"
    raw_name,           \* normalizers: the name given to both of them
    normalized,         \* normalizers: normalizer -> its results so far
    unmatched_log,      \* create_channel_list.main: the file args.unmatched_log
    output_file,        \* the file at the output path of the run
    returned,           \* the values returned to the caller, in call order
    new_root,           \* consolidate_epg_files: the element new_root
    channel_ids,        \* consolidate_epg_files: the set channel_ids
    countries_to_process, \* process_countries.main: the list of that name
    country_idx,        \* process_countries.main: position of the for loop
    successful_countries, \* process_countries.main: the list of that name
    failed_countries    \* process_countries.main: the list of that name

vars == << fuzzLib, channel, epg_channels, matchLog, playlist_channels,
           epg_files, threshold, only_perfect, pc, file_idx, all_matches,
           match_idx, consolidated_matches, final_matches, output, emitter,
           channel_mappings, units, futures, matches, content,
           country_prefix, line_i, loader_channels, raw_name, normalized,
           unmatched_log, output_file, returned, new_root, channel_ids,
           countries_to_process, country_idx, successful_countries,
           failed_countries >>

(***************************************************************************)
(* Characters                                                              *)
(***************************************************************************)
Uppercase == << "A","B","C","D","E","F","G","H","I","J","K","L","M",
                "N","O","P","Q","R","S","T","U","V","W","X","Y","Z" >>
Lowercase == << "a","b","c","d","e","f","g","h","i","j","k","l","m",
                "n","o","p","q","r","s","t","u","v","w","x","y","z" >>
Digits    == << "0","1","2","3","4","5","6","7","8","9" >>

\* The characters of the model in code point order (Python compares strings
\* by code point).
AsciiOrder == << " ", "&", "+", "-", "." >> \o Digits \o << ":" >>
              \o Uppercase \o << "_" >> \o Lowercase

Chars == {AsciiOrder[i] : i \in 1..Len(AsciiOrder)}

OrdTable == [c \in Chars |-> CHOOSE i \in 1..Len(AsciiOrder) : AsciiOrder[i] = c]

Ord(c) == OrdTable[c]

IsSpace(c) == c = " "

\* \w
WordChars == {Uppercase[i] : i \in 1..Len(Uppercase)}
             \cup {Lowercase[i] : i \in 1..Len(Lowercase)}
             \cup {Digits[i] : i \in 1..Len(Digits)} \cup {"_"}

IsWord(c) == c \in WordChars

UpperTable == [c \in Chars |->
                 IF \E i \in 1..Len(Lowercase) : Lowercase[i] = c
                 THEN Uppercase[CHOOSE i \in 1..Len(Lowercase) : Lowercase[i] = c]
                 ELSE c]

LowerTable == [c \in Chars |->
                 IF \E i \in 1..Len(Uppercase) : Uppercase[i] = c
                 THEN Lowercase[CHOOSE i \in 1..Len(Uppercase) : Uppercase[i] = c]
                 ELSE c]

UpperChar(c) == UpperTable[c]

LowerChar(c) == LowerTable[c]

(***************************************************************************)
(* str methods and the regular expressions of the normalizers              *)
(***************************************************************************)
\* str.upper(), str.lower()
Upper(s) == SubSeq([i \in 1..Len(s) |-> UpperChar(s[i])], 1, Len(s))
Lower(s) == SubSeq([i \in 1..Len(s) |-> LowerChar(s[i])], 1, Len(s))

\* Python runs a statement to its end before the next one starts, while TLC
\* computes an operator argument where the operator first reads it.
\* Strict(x, e) is e, with x (a tuple: its components, left to right)
\* computed first.
Strict(x, e) == CASE x = x -> e

Min(S) == CHOOSE x \in S : \A y \in S : x <= y
Max(S) == CHOOSE x \in S : \A y \in S : x >= y

StartsWith(s, p) == Len(p) <= Len(s) /\ SubSeq(s, 1, Len(p)) = p

Drop(s, n) == SubSeq(s, n + 1, Len(s))

\* str.strip()
Strip(s) ==
    LET keep == {i \in 1..Len(s) : ~IsSpace(s[i])}
    IN  IF keep = {} THEN <<>> ELSE SubSeq(s, Min(keep), Max(keep))

\* re.sub(r'\s+', ' ', s)
RECURSIVE CollapseFrom(_, _)
CollapseFrom(s, p) ==
    IF p > Len(s) THEN <<>>
    ELSE IF IsSpace(s[p])
         THEN IF p > 1 /\ IsSpace(s[p - 1])
              THEN CollapseFrom(s, p + 1)
              ELSE << " " >> \o CollapseFrom(s, p + 1)
         ELSE << s[p] >> \o CollapseFrom(s, p + 1)

CollapseSpaces(s) == CollapseFrom(s, 1)

\* the token tok stands at position p of s (re.IGNORECASE)
MatchAt(s, p, tok) ==
    /\ p >= 1
    /\ p + Len(tok) - 1 <= Len(s)
    /\ \A k \in 1..Len(tok) : UpperChar(s[p + k - 1]) = tok[k]

IsWordAt(s, p) == p >= 1 /\ p <= Len(s) /\ IsWord(s[p])

\* \b between positions p-1 and p
Boundary(s, p) == IsWordAt(s, p - 1) # IsWordAt(s, p)

\* first alternative of toks (in order) matching at p and followed by \b
FirstAlt(s, p, toks, needBefore) ==
    LET hits == {k \in 1..Len(toks) :
                    /\ MatchAt(s, p, toks[k])
                    /\ (needBefore => Boundary(s, p))
                    /\ Boundary(s, p + Len(toks[k]))}
    IN  IF hits = {} THEN 0 ELSE Min(hits)

\* end of the whitespace run that starts at p (p - 1 when s[p] is no space)
RECURSIVE SpaceRunEnd(_, _)
SpaceRunEnd(s, p) ==
    IF p <= Len(s) /\ IsSpace(s[p]) THEN SpaceRunEnd(s, p + 1) ELSE p - 1

AllSpaces(s, lo, hi) == \A i \in lo..hi : IsSpace(s[i])

QualityTokens == << <<"H","D">>, <<"S","D">>, <<"F","H","D">>, <<"U","H","D">>,
                    <<"4","K">>, <<"H","E","V","C">>, <<"H","2","6","5">>,
                    <<"H",".","2","6","5">> >>

ShortQualityTokens == << <<"H","D">>, <<"S","D">>, <<"F","H","D">>,
                         <<"U","H","D">>, <<"4","K">> >>

CleanSuffixTokens == << <<"C","H","A","N","N","E","L">>, <<"T","V">>,
                        <<"N","E","T","W","O","R","K">>, <<"I","N","D","I","A">> >>

NormalizeSuffixTokens == << <<"C","H","A","N","N","E","L">>, <<"T","V">>,
                            <<"N","E","T","W","O","R","K">> >>

CountryPrefixes == << <<"U","K",":">>, <<"U","S",":">>, <<"I","N",":">>,
                      <<"C","A",":">> >>

\* re.sub(r'\b(HD|SD|...)\b', '', s, flags=re.IGNORECASE)
RECURSIVE RemoveWordTokens(_, _, _)
RemoveWordTokens(s, p, toks) ==
    IF p > Len(s) THEN <<>>
    ELSE LET k == FirstAlt(s, p, toks, TRUE)
         IN  IF k = 0
             THEN << s[p] >> \o RemoveWordTokens(s, p + 1, toks)
             ELSE RemoveWordTokens(s, p + Len(toks[k]), toks)

\* re.sub(r'\s+(HD|SD|...)\b', '', s)
RECURSIVE RemoveSpacedTokens(_, _, _)
RemoveSpacedTokens(s, p, toks) ==
    IF p > Len(s) THEN <<>>
    ELSE LET q == SpaceRunEnd(s, p)
             k == IF q >= p THEN FirstAlt(s, q + 1, toks, FALSE) ELSE 0
         IN  IF k = 0
             THEN << s[p] >> \o RemoveSpacedTokens(s, p + 1, toks)
             ELSE RemoveSpacedTokens(s, q + 1 + Len(toks[k]), toks)

\* re.sub(r'\s+(A|B|...)\s*$', '', s) and, with trail = FALSE,
\* re.sub(r'\s+(A|B|...)$', '', s): the leftmost match is the only one
RemoveTrailingToken(s, toks, trail) ==
    LET starts == {p \in 1..Len(s) :
                     \E q \in p..Len(s) : \E k \in 1..Len(toks) :
                        /\ AllSpaces(s, p, q)
                        /\ MatchAt(s, q + 1, toks[k])
                        /\ IF trail
                           THEN AllSpaces(s, q + 1 + Len(toks[k]), Len(s))
                           ELSE q + Len(toks[k]) = Len(s)}
    IN  IF starts = {} THEN s ELSE SubSeq(s, 1, Min(starts) - 1)

\* re.sub(r'[&+]', ' AND ', s)
RECURSIVE ReplaceAmpersand(_, _)
ReplaceAmpersand(s, p) ==
    IF p > Len(s) THEN <<>>
    ELSE (IF s[p] = "&" \/ s[p] = "+"
          THEN << " ", "A", "N", "D", " " >>
          ELSE << s[p] >>) \o ReplaceAmpersand(s, p + 1)

\* re.sub(r'[^\w\s]', ' ', s)
ReplacePunctuation(s) ==
    SubSeq([i \in 1..Len(s) |-> IF IsWord(s[i]) \/ IsSpace(s[i]) THEN s[i] ELSE " "],
           1, Len(s))

\* the prefix loop of clean_channel_name: each prefix is tried once, in order
RECURSIVE StripCountryPrefixes(_, _)
StripCountryPrefixes(name, k) ==
    IF k > Len(CountryPrefixes) THEN name
    ELSE Strict(name, StripCountryPrefixes(
             IF StartsWith(Upper(name), CountryPrefixes[k])
             THEN Strip(Drop(name, Len(CountryPrefixes[k])))
             ELSE name,
             k + 1))

clean_channel_name(name) ==
    LET n1 == StripCountryPrefixes(name, 1)
        n2 == Strip(CollapseSpaces(n1))
        n3 == RemoveWordTokens(n2, 1, QualityTokens)
        n4 == RemoveTrailingToken(n3, ShortQualityTokens, FALSE)
        n5 == RemoveTrailingToken(n4, CleanSuffixTokens, TRUE)
        n6 == ReplaceAmpersand(n5, 1)
        n7 == ReplacePunctuation(n6)
        n8 == Strip(CollapseSpaces(n7))
    IN  Strict(<< n1, n2, n3, n4, n5, n6, n7, n8 >>, Upper(Strip(n8)))

normalize_channel_name(name) ==
    LET n1 == Upper(name)
        n2 == RemoveSpacedTokens(n1, 1, QualityTokens)
        n3 == RemoveTrailingToken(n2, NormalizeSuffixTokens, TRUE)
        n4 == ReplacePunctuation(n3)
    IN  Strict(<< n1, n2, n3, n4 >>, Strip(CollapseSpaces(n4)))

(***************************************************************************)
(* Scores.  fuzzywuzzy returns integers, the fallback class returns the    *)
(* float SequenceMatcher.ratio() * 100: a score is the exact fraction      *)
(* num / den in lowest terms.                                              *)
(***************************************************************************)
RECURSIVE GCD(_, _)
GCD(a, b) == IF b = 0 THEN a ELSE GCD(b, a % b)

Reduced(n, d, g) == [num |-> n \div g, den |-> d \div g]

Rat(n, d) == IF n = 0 THEN [num |-> 0, den |-> 1] ELSE Reduced(n, d, GCD(n, d))

IntScore(n) == [num |-> n, den |-> 1]

ScoreGT(x, y) == x.num * y.den > y.num * x.den
ScoreGE(x, y) == x.num * y.den >= y.num * x.den

(***************************************************************************)
(* difflib.SequenceMatcher (no junk; autojunk needs 200 elements)          *)
(***************************************************************************)
RECURSIVE CommonLen(_, _, _, _)
CommonLen(a, b, i, j) ==
    IF i <= Len(a) /\ j <= Len(b) /\ a[i] = b[j]
    THEN 1 + CommonLen(a, b, i + 1, j + 1)
    ELSE 0

\* the length of the common run at every pair of positions
BlockLens(a, b) ==
    {<< i, j, CommonLen(a, b, i, j) >> : i \in 1..Len(a), j \in 1..Len(b)}

EarliestInB(blocks, k, bi) ==
    << bi, Min({x[2] : x \in {y \in blocks : y[3] = k /\ y[1] = bi}}), k >>

EarliestInA(blocks, k) ==
    IF k = 0 THEN << 0, 0, 0 >>
    ELSE EarliestInB(blocks, k, Min({x[1] : x \in {y \in blocks : y[3] = k}}))

\* find_longest_match: the longest block, earliest in a, then earliest in b
LongestMatch(a, b) ==
    EarliestInA(BlockLens(a, b), Max({x[3] : x \in BlockLens(a, b)}))

\* get_matching_blocks, as the set of (i, j, size) with 0-based i and j;
\* ao and bo are the offsets of a and b in the strings compared
RECURSIVE MatchingBlocks(_, _, _, _)
BlocksAround(a, b, ao, bo, m) ==
    IF m[3] = 0 THEN {}
    ELSE {<< ao + m[1] - 1, bo + m[2] - 1, m[3] >>}
         \cup MatchingBlocks(SubSeq(a, 1, m[1] - 1),
                             SubSeq(b, 1, m[2] - 1), ao, bo)
         \cup MatchingBlocks(SubSeq(a, m[1] + m[3], Len(a)),
                             SubSeq(b, m[2] + m[3], Len(b)),
                             ao + m[1] + m[3] - 1, bo + m[2] + m[3] - 1)

MatchingBlocks(a, b, ao, bo) ==
    IF a = <<>> \/ b = <<>> THEN {}
    ELSE BlocksAround(a, b, ao, bo, LongestMatch(a, b))

RECURSIVE SumSizes(_)
SumSizesFrom(blocks, x) == x[3] + SumSizes(blocks \ {x})

SumSizes(blocks) ==
    IF blocks = {} THEN 0
    ELSE SumSizesFrom(blocks, CHOOSE y \in blocks : TRUE)

\* SequenceMatcher(None, a, b).ratio() as the fraction (2 * matches, length);
\* two empty strings have ratio 1.0
SeqRatio(a, b) ==
    IF Len(a) + Len(b) = 0 THEN << 1, 1 >>
    ELSE << 2 * SumSizes(MatchingBlocks(a, b, 0, 0)), Len(a) + Len(b) >>

\* int(round(n / d)), round half to even
RoundHalfEven(n, d) ==
    IF 2 * (n % d) < d THEN n \div d
    ELSE IF 2 * (n % d) > d THEN (n \div d) + 1
    ELSE IF (n \div d) % 2 = 0 THEN n \div d ELSE (n \div d) + 1

\* utils.intr(100 * r) for the fraction r = nd[1] / nd[2]
Intr100(nd) == RoundHalfEven(100 * nd[1], nd[2])

(***************************************************************************)
(* fuzzywuzzy.fuzz on the pure-Python SequenceMatcher                      *)
(***************************************************************************)
\* fuzz.ratio with its decorators check_for_equivalence, check_empty_string
FuzzRatio(s1, s2) ==
    IF s1 = s2 THEN 100
    ELSE IF Len(s1) = 0 \/ Len(s2) = 0 THEN 0
    ELSE Intr100(SeqRatio(s1, s2))

\* longer[long_start:long_start + len(shorter)]
Window(longer, st, n) ==
    SubSeq(longer, st + 1, IF st + n <= Len(longer) THEN st + n ELSE Len(longer))

\* long_start of every matching block, the terminating dummy block included
WindowStarts(blocks) ==
    {IF b[2] - b[1] > 0 THEN b[2] - b[1] ELSE 0 : b \in blocks}

\* "if r > .995: return 100", else intr(100 * max(scores))
BestWindow(rs) ==
    IF \E r \in rs : 1000 * r[1] > 995 * r[2] THEN 100
    ELSE Intr100(CHOOSE r \in rs : \A o \in rs : r[1] * o[2] >= o[1] * r[2])

PartialOf(shorter, longer) ==
    BestWindow({SeqRatio(shorter, Window(longer, st, Len(shorter))) :
                  st \in WindowStarts(MatchingBlocks(shorter, longer, 0, 0)
                                      \cup {<< Len(shorter), Len(longer), 0 >>})})

\* fuzz.partial_ratio: the shorter string against the windows of the longer
\* one that the matching blocks align
FuzzPartialRatio(s1, s2) ==
    IF s1 = s2 THEN 100
    ELSE IF Len(s1) = 0 \/ Len(s2) = 0 THEN 0
    ELSE IF Len(s1) <= Len(s2) THEN PartialOf(s1, s2)
    ELSE PartialOf(s2, s1)

\* str.split()
RECURSIVE Split(_, _)
SplitToken(s, p, e) == << SubSeq(s, p, e) >> \o Split(s, e + 1)

Split(s, p) ==
    IF p > Len(s) THEN <<>>
    ELSE IF IsSpace(s[p]) THEN Split(s, p + 1)
    ELSE SplitToken(s, p, Min({q \in p..Len(s) : q = Len(s) \/ IsSpace(s[q + 1])}))

\* s < t for strings, by code point
RECURSIVE LexLess(_, _)
LexLess(s, t) ==
    IF t = <<>> THEN FALSE
    ELSE IF s = <<>> THEN TRUE
    ELSE IF s[1] # t[1] THEN Ord(s[1]) < Ord(t[1])
    ELSE LexLess(Tail(s), Tail(t))

\* sorted(tokens) for a set of distinct tokens
RECURSIVE SortedSet(_)
SortedFrom(S, least) == << least >> \o SortedSet(S \ {least})

SortedSet(S) ==
    IF S = {} THEN <<>>
    ELSE SortedFrom(S, CHOOSE x \in S : \A y \in S \ {x} : LexLess(x, y))

RECURSIVE Repeat(_, _)
Repeat(x, n) == IF n = 0 THEN <<>> ELSE << x >> \o Repeat(x, n - 1)

RECURSIVE Flatten(_)
Flatten(ss) == IF ss = <<>> THEN <<>> ELSE Head(ss) \o Flatten(Tail(ss))

Range(seq) == {seq[i] : i \in 1..Len(seq)}

Count(seq, x) == Cardinality({i \in 1..Len(seq) : seq[i] = x})

WithRepeats(distinct, toks) ==
    Flatten([k \in 1..Len(distinct) |-> Repeat(distinct[k], Count(toks, distinct[k]))])

\* sorted(tokens) for a list: equal tokens stay, one after the other
SortedList(toks) == WithRepeats(SortedSet(Range(toks)), toks)

\* " ".join(tokens)
RECURSIVE Join(_)
Join(toks) ==
    IF toks = <<>> THEN <<>>
    ELSE IF Len(toks) = 1 THEN toks[1]
    ELSE toks[1] \o << " " >> \o Join(Tail(toks))

\* utils.full_process(s, force_ascii=True) on the characters of the model
FullProcess(s) == Strip(Lower(ReplacePunctuation(s)))

\* _process_and_sort
\* the steps of _process_and_sort, each on the finished result of the last
SortedTokens(tokens) == Strict(tokens, Strip(Join(SortedList(tokens))))

SplitProcessed(processed) == Strict(processed, SortedTokens(Split(processed, 1)))

ProcessAndSort(s) == SplitProcessed(FullProcess(s))

\* fuzz.token_sort_ratio
\* ratio of the two sorted strings
SortedRatio(sorted1, sorted2) == Strict(<< sorted1, sorted2 >>, FuzzRatio(sorted1, sorted2))

FuzzTokenSortRatio(s1, s2) == SortedRatio(ProcessAndSort(s1), ProcessAndSort(s2))

\* max(pairwise) of _token_set
Pairwise(sect, combined_1to2, combined_2to1) ==
    Strict(<< sect, combined_1to2, combined_2to1 >>,
           Max({FuzzRatio(sect, combined_1to2),
                FuzzRatio(sect, combined_2to1),
                FuzzRatio(combined_1to2, combined_2to1)}))

Combined(sorted_sect, sorted_1to2, sorted_2to1) ==
    Pairwise(Strip(sorted_sect),
             Strip(sorted_sect \o << " " >> \o sorted_1to2),
             Strip(sorted_sect \o << " " >> \o sorted_2to1))

TokenSets(tokens1, tokens2) ==
    Combined(Join(SortedSet(tokens1 \cap tokens2)),
             Join(SortedSet(tokens1 \ tokens2)),
             Join(SortedSet(tokens2 \ tokens1)))

Processed(p1, p2) ==
    Strict(<< p1, p2 >>,
           IF Len(p1) = 0 \/ Len(p2) = 0 THEN 0
           ELSE TokenSets(Range(Split(p1, 1)), Range(Split(p2, 1))))

\* fuzz.token_set_ratio
FuzzTokenSetRatio(s1, s2) == Processed(FullProcess(s1), FullProcess(s2))

\* every method of the FuzzFallback class
FallbackRatio(s1, s2) == Rat(100 * SeqRatio(s1, s2)[1], SeqRatio(s1, s2)[2])

(***************************************************************************)
(* The fuzz object the import statement leaves behind                      *)
(***************************************************************************)
FuzzLibs == {"fuzzywuzzy", "fallback"}

ratio(s1, s2) ==
    IF fuzzLib = "fuzzywuzzy" THEN IntScore(FuzzRatio(s1, s2))
    ELSE FallbackRatio(s1, s2)

partial_ratio(s1, s2) ==
    IF fuzzLib = "fuzzywuzzy" THEN IntScore(FuzzPartialRatio(s1, s2))
    ELSE FallbackRatio(s1, s2)

token_sort_ratio(s1, s2) ==
    IF fuzzLib = "fuzzywuzzy" THEN IntScore(FuzzTokenSortRatio(s1, s2))
    ELSE FallbackRatio(s1, s2)

token_set_ratio(s1, s2) ==
    IF fuzzLib = "fuzzywuzzy" THEN IntScore(FuzzTokenSetRatio(s1, s2))
    ELSE FallbackRatio(s1, s2)

(***************************************************************************)
(* find_best_match (match_channels.py and epg_matcher.py, same text)       *)
(***************************************************************************)
\* Python's None where a dict is expected (a result, a target channel)
None == [none |-> TRUE]
\* Python's None in the method slot
NoMethod == "None"

\* the (guide channel, display name) index pairs in the order of the two loops
RECURSIVE ScanPairsFrom(_, _, _)
ScanPairsFrom(chs, i, j) ==
    IF i > Len(chs) THEN <<>>
    ELSE IF j > Len(chs[i].display_names) THEN ScanPairsFrom(chs, i + 1, 1)
    ELSE << << i, j >> >> \o ScanPairsFrom(chs, i, j + 1)

ScanPairs(chs) == ScanPairsFrom(chs, 1, 1)

\* positions in the scan of the display names whose cleaned form is clean_name
ExactHits(clean_name, chs, pairs) ==
    {k \in 1..Len(pairs) :
        clean_channel_name(chs[pairs[k][1]].display_names[pairs[k][2]]) = clean_name}

FirstOf(hits) == IF hits = {} THEN 0 ELSE Min(hits)

\* an exact pass that looks at the primary name of each channel only
PrimaryPairs(chs) == [i \in 1..Len(chs) |-> << i, 1 >>]

PrimaryHit(chs, hits) == IF hits = {} THEN 0
                         ELSE Min({k \in 1..Len(ScanPairs(chs)) :
                                     ScanPairs(chs)[k] = << Min(hits), 1 >>})

ExactMatchIndexPrimaryOnly(clean_name, chs) ==
    PrimaryHit(chs, ExactHits(clean_name, chs, PrimaryPairs(chs)))

\* the exact pass: position in the scan of the first display name whose
\* cleaned form equals clean_name, 0 when the loops run to their end
ExactMatchIndex(clean_name, chs) ==
    FirstOf(ExactHits(clean_name, chs, ScanPairs(chs)))

\* one of the four "if <score> > best_score" statements
Improve(best, score, epg_channel, method) ==
    IF ScoreGT(score, best.best_score)
    THEN [best_score |-> score, best_match |-> epg_channel, best_method |-> method]
    ELSE best

\* the four comparisons of the loop body, in their order
FourImproves(best, epg_channel, scores) ==
    Improve(
      Improve(
        Improve(
          Improve(best, scores[1], epg_channel, "String similarity"),
          scores[2], epg_channel, "Partial match"),
        scores[3], epg_channel, "Token sort"),
      scores[4], epg_channel, "Token set")

\* the four scores at the head of the loop body
FourScores(clean_name, clean_epg_name) ==
    << ratio(clean_name, clean_epg_name),
       partial_ratio(clean_name, clean_epg_name),
       token_sort_ratio(clean_name, clean_epg_name),
       token_set_ratio(clean_name, clean_epg_name) >>

\* the comparisons run once the four scores are known
ScoredStep(best, epg_channel, scores) ==
    Strict(scores, FourImproves(best, epg_channel, scores))

\* the body of the fuzzy loops for one display name
FuzzyStep(best, clean_name, epg_channel, display_name) ==
    ScoredStep(best, epg_channel,
               FourScores(clean_name, clean_channel_name(display_name)))

RECURSIVE FuzzyScan(_, _, _, _, _)
FuzzyScan(best, clean_name, chs, pairs, k) ==
    IF k > Len(pairs) THEN best
    ELSE Strict(best,
             FuzzyScan(FuzzyStep(best, clean_name, chs[pairs[k][1]],
                                 chs[pairs[k][1]].display_names[pairs[k][2]]),
                       clean_name, chs, pairs, k + 1))

\* the state of the fuzzy pass before the loops
InitialBest == [best_score |-> IntScore(0), best_match |-> None,
                best_method |-> NoMethod]

DefaultThreshold == 70

\* an acceptance test against the default threshold, whatever the caller's
AcceptsDefault(best_score, thr) == ScoreGE(best_score, IntScore(DefaultThreshold))

\* "if best_score >= threshold"
Accepts(best_score, thr) == ScoreGE(best_score, IntScore(thr))

\* the statements after the loops
FuzzyResult(best, thr) ==
    Strict(best,
           IF Accepts(best.best_score, thr)
           THEN [epg_channel |-> best.best_match, score |-> best.best_score,
                 method |-> best.best_method]
           ELSE None)

ExactResult(epg_channel) ==
    [epg_channel |-> epg_channel, score |-> IntScore(100), method |-> "Exact match"]

TwoPasses(clean_name, chs, thr, pairs, hit) ==
    IF hit # 0 THEN ExactResult(chs[pairs[hit][1]])
    ELSE FuzzyResult(FuzzyScan(InitialBest, clean_name, chs, pairs, 1), thr)

CleanedMatch(clean_name, chs, thr) ==
    TwoPasses(clean_name, chs, thr, ScanPairs(chs), ExactMatchIndex(clean_name, chs))

find_best_match(ch, chs, thr) ==
    CleanedMatch(clean_channel_name(ch.clean_name), chs, thr)

(***************************************************************************)
(* Inputs of the matching specification                                    *)
(***************************************************************************)
\* a playlist record as load_playlist_channels builds it without a prefix
PlaylistChannel(name) == [name |-> name, clean_name |-> name]

\* a guide channel as load_epg_channels builds it
GuideChannel(id, names) ==
    [id |-> id, display_names |-> names, primary_name |-> names[1], icons |-> <<>>]

ChannelNames == {
    << "B","B","C"," ","O","N","E"," ","H","D" >>,
    << "B","B","C" >>,
    << "U","K",":"," ","B","B","C"," ","T","W","O" >>,
    << "H","D" >> }

GuidePool == <<
    GuideChannel("bbc1", << << "B","B","C"," ","1" >>,
                            << "B","B","C"," ","O","n","e" >> >>),
    GuideChannel("bbc2", << << "B","B","C"," ","T","W","O" >> >>),
    GuideChannel("xyz",  << << "X","Y","Z" >> >>),
    GuideChannel("bbc2hd", << << "B","B","C"," ","T","w","o"," ","H","D" >> >>) >>

\* longest guide channel list of the matching specification
MaxGuide == 2

\* the lists of 1..n distinct channels of the pool
RECURSIVE GuideLists(_)
GuideLists(n) ==
    IF n = 0 THEN {<<>>}
    ELSE LET shorter == GuideLists(n - 1)
         IN  shorter \cup
             {Append(l, GuidePool[g]) :
                 l \in {x \in shorter : Len(x) = n - 1},
                 g \in 1..Len(GuidePool)}

DistinctIds(l) == \A i, j \in 1..Len(l) : i # j => l[i].id # l[j].id


Thresholds == {0, DefaultThreshold, 101}

Uncalled == [uncalled |-> TRUE]

Idle == "idle"

InitPipelineIdle ==
    /\ playlist_channels = <<>>
    /\ epg_files = <<>>
    /\ threshold = DefaultThreshold
    /\ only_perfect = FALSE
    /\ pc = Idle
    /\ file_idx = 0
    /\ all_matches = <<>>
    /\ match_idx = 0
    /\ consolidated_matches = <<>>
    /\ final_matches = <<>>
    /\ output = <<>>
    /\ emitter = Idle

InitCatalogIdle ==
    /\ channel_mappings = <<>>
    /\ units = <<>>
    /\ futures = <<>>
    /\ matches = <<>>

InitLoaderIdle ==
    /\ content = <<>>
    /\ country_prefix = None
    /\ line_i = 0
    /\ loader_channels = <<>>

InitNormalizerIdle ==
    /\ raw_name = <<>>
    /\ normalized = <<>>

\* no file at the path
Absent == [absent |-> TRUE]

InitReportIdle ==
    /\ unmatched_log = Absent
    /\ output_file = Absent
    /\ returned = <<>>

InitConsolidateIdle ==
    /\ new_root = None
    /\ channel_ids = {}

InitCountriesIdle ==
    /\ countries_to_process = <<>>
    /\ country_idx = 0
    /\ successful_countries = <<>>
    /\ failed_countries = <<>>

InitDriversIdle == InitReportIdle /\ InitConsolidateIdle /\ InitCountriesIdle

InitToolsIdle == InitLoaderIdle /\ InitNormalizerIdle /\ InitDriversIdle

loaderVars == << content, country_prefix, line_i, loader_channels >>

normalizerVars == << raw_name, normalized >>

reportVars == << unmatched_log, output_file, returned >>

consolidateVars == << new_root, channel_ids >>

countryVars == << countries_to_process, country_idx, successful_countries,
                 failed_countries >>

driverVars == << reportVars, consolidateVars, countryVars >>

toolVars == << loaderVars, normalizerVars, driverVars >>

pipelineVars == << playlist_channels, epg_files, threshold, only_perfect, pc,
                   file_idx, all_matches, match_idx, consolidated_matches,
                   final_matches, output, emitter >>

catalogVars == << channel_mappings, units, futures, matches >>

matchVars == << channel, epg_channels, matchLog >>

InitMatch ==
    /\ fuzzLib \in FuzzLibs
    /\ channel \in {PlaylistChannel(n) : n \in ChannelNames}
    /\ epg_channels \in {l \in GuideLists(MaxGuide) : Len(l) >= 1 /\ DistinctIds(l)}
    /\ matchLog = [t \in Thresholds |-> Uncalled]
    /\ InitPipelineIdle
    /\ InitCatalogIdle
    /\ InitToolsIdle

\* one call find_best_match(channel, epg_channels, t)
CallFindBestMatch(t) ==
    /\ matchLog[t] = Uncalled
    /\ matchLog' = [matchLog EXCEPT ![t] = find_best_match(channel, epg_channels, t)]
    /\ UNCHANGED << fuzzLib, channel, epg_channels, pipelineVars, catalogVars,
                    toolVars >>

NextMatch == \E t \in Thresholds : CallFindBestMatch(t)

SpecMatch == InitMatch /\ [][NextMatch]_vars

(***************************************************************************)
(* Properties of find_best_match                                           *)
(***************************************************************************)
Called(t) == matchLog[t] # Uncalled

Matched(t) == Called(t) /\ matchLog[t] # None

CleanName == clean_channel_name(channel.clean_name)

\* guide channel i has a display name that cleans to the channel's clean name
HasExactName(i) ==
    \E j \in 1..Len(epg_channels[i].display_names) :
        clean_channel_name(epg_channels[i].display_names[j]) = CleanName

NoExactName == \A i \in 1..Len(epg_channels) : ~HasExactName(i)

\* the (channel, name, method) combinations of the fuzzy pass in scan order,
\* each with its score
MethodLabels == << "String similarity", "Partial match", "Token sort", "Token set" >>

MethodScore(m, a, b) ==
    CASE m = 1 -> ratio(a, b)
      [] m = 2 -> partial_ratio(a, b)
      [] m = 3 -> token_sort_ratio(a, b)
      [] m = 4 -> token_set_ratio(a, b)

Combinations ==
    LET pairs == ScanPairs(epg_channels)
    IN  [k \in 1..(4 * Len(pairs)) |->
            LET pr == pairs[((k - 1) \div 4) + 1]
                m  == ((k - 1) % 4) + 1
            IN  [target |-> epg_channels[pr[1]],
                 method |-> MethodLabels[m],
                 score  |-> MethodScore(m, CleanName,
                               clean_channel_name(
                                   epg_channels[pr[1]].display_names[pr[2]]))]]

\* C1: every returned result with score 100 has method Exact; the fuzzy pass
\* never returns score 100.
C1_ScoreHundredIsExact ==
    \A t \in Thresholds :
        Matched(t) /\ matchLog[t].score = IntScore(100)
            => matchLog[t].method = "Exact match"

\* C5 as stated: a None at threshold t stays None at every higher threshold,
\* and every threshold strictly above the score achieved at a lower threshold
\* gives None, whichever pass produced the score.
C5_RaisingThresholdAlwaysUnmatches ==
    \A t, u \in Thresholds :
        t < u /\ Called(t) /\ Called(u) =>
            /\ matchLog[t] = None => matchLog[u] = None
            /\ (Matched(t) /\ ScoreGT(IntScore(u), matchLog[t].score))
                   => matchLog[u] = None

\* C5 amended: a None at threshold t stays None at every higher threshold; a
\* threshold strictly above a score the fuzzy pass achieved at a lower
\* threshold gives None; a result of the exact pass is returned unchanged at
\* every threshold.
C5_RaisingThresholdUnmatchesFuzzy ==
    \A t, u \in Thresholds :
        t < u /\ Called(t) /\ Called(u) =>
            /\ matchLog[t] = None => matchLog[u] = None
            /\ (Matched(t) /\ matchLog[t].method # "Exact match"
                  /\ ScoreGT(IntScore(u), matchLog[t].score))
                   => matchLog[u] = None
            /\ (Matched(t) /\ matchLog[t].method = "Exact match")
                   => matchLog[u] = matchLog[t]

\* a fuzzy match at one threshold and None at a higher one, above its score
C5_Witness ==
    \E t, u \in Thresholds :
        /\ t < u /\ Matched(t) /\ Called(u)
        /\ matchLog[t].method \in Range(MethodLabels)
        /\ ScoreGT(IntScore(u), matchLog[t].score)
        /\ matchLog[u] = None

\* C6: when some display name of some guide channel cleans to the channel's
\* clean name, the result is Exact with score 100 and its target is the first
\* such guide channel in list order; a result of the fuzzy pass is returned
\* only when no display name of any guide channel is an exact match.
C6_ExactMatchWins ==
    \A t \in Thresholds : Called(t) =>
        /\ \A i \in 1..Len(epg_channels) :
              (HasExactName(i) /\ \A k \in 1..(i - 1) : ~HasExactName(k))
                  => matchLog[t] = [epg_channel |-> epg_channels[i],
                                    score |-> IntScore(100),
                                    method |-> "Exact match"]
        /\ NoExactName => (matchLog[t] = None \/ matchLog[t].method # "Exact match")

\* the exact match is in the second guide channel, by its second or only
\* name, while the first guide channel alone is a fuzzy match at t > 0
C6_Witness ==
    \E t \in Thresholds :
        /\ Called(t)
        /\ Len(epg_channels) = 2
        /\ ~HasExactName(1) /\ HasExactName(2)
        /\ t > 0
        /\ find_best_match(channel, << epg_channels[1] >>, t) # None
        /\ matchLog[t].epg_channel = epg_channels[2]

\* C7: in the fuzzy pass the returned score is the maximum of the four scores
\* over all (guide channel, display name) pairs, target and method are those
\* of the first combination in scan order attaining it, and the result is a
\* match exactly when that maximum is >= threshold.
C7_FuzzyPassReturnsFirstMaximum ==
    \A t \in Thresholds : (Called(t) /\ NoExactName) =>
        LET combos == Combinations
            best   == CHOOSE k \in 1..Len(combos) :
                        /\ \A o \in 1..Len(combos) :
                              ScoreGE(combos[k].score, combos[o].score)
                        /\ \A o \in 1..(k - 1) :
                              ScoreGT(combos[k].score, combos[o].score)
        IN  /\ Matched(t) <=> ScoreGE(combos[best].score, IntScore(t))
            /\ Matched(t) => matchLog[t] = [epg_channel |-> combos[best].target,
                                            score |-> combos[best].score,
                                            method |-> combos[best].method]

\* C8: every result other than None has a target guide channel and a method,
\* at every threshold.
C8_MatchHasTargetAndMethod ==
    \A t \in Thresholds :
        Matched(t) => /\ matchLog[t].epg_channel # None
                      /\ matchLog[t].method # NoMethod

(***************************************************************************)
(* EPG documents and load_epg_channels                                     *)
(***************************************************************************)
\* a <channel> element: its id attribute, the texts of its display-name
\* children, the src of its icon children, the number of its other children
ChannelElem(id, names, icons, others) ==
    [id |-> id, display_names |-> names, icons |-> icons, others |-> others]

\* a <programme> element: its channel and start attributes
Programme(id, start) == [channel |-> id, start |-> start]

\* a file of the EPG directory: its path, whether it exists, and the channel
\* and programme elements of its document in document order
EpgFile(dir, basename, exists, channels, programmes) ==
    [path |-> << dir, basename >>, basename |-> basename, exists |-> exists,
     channels |-> channels, programmes |-> programmes]

\* truth value of an element: it has children
ElementTruthy(e) == Len(e.display_names) + Len(e.icons) + e.others # 0

StripAll(names) == [i \in 1..Len(names) |-> Strip(names[i])]

\* the record appended for one channel element
LoadedChannel(e) ==
    [id |-> e.id, display_names |-> StripAll(e.display_names),
     primary_name |-> Strip(e.display_names[1]), icons |-> e.icons]

\* "if channel_id and display_names"
Loadable(e) == e.id # "" /\ e.display_names # <<>>

RECURSIVE LoadFrom(_, _)
LoadFrom(elems, i) ==
    IF i > Len(elems) THEN <<>>
    ELSE IF Loadable(elems[i])
         THEN << LoadedChannel(elems[i]) >> \o LoadFrom(elems, i + 1)
         ELSE LoadFrom(elems, i + 1)

load_epg_channels(f) == IF ~f.exists THEN <<>> ELSE LoadFrom(f.channels, 1)

(***************************************************************************)
(* match_channels (match_channels.py) and the fold of process_epg_files    *)
(***************************************************************************)
MatchAll(playlist, chs, thr) ==
    [i \in 1..Len(playlist) |->
        [playlist_channel |-> playlist[i],
         epg_match |-> find_best_match(playlist[i], chs, thr)]]

MatchLoaded(playlist, chs, thr) ==
    IF chs = <<>> THEN <<>> ELSE MatchAll(playlist, chs, thr)

match_channels(playlist, f, thr) ==
    MatchLoaded(playlist, load_epg_channels(f), thr)

\* truth value of an 'epg_match' slot: None is false, a result dict is true
Truthy(epg_match) == epg_match # None

\* "if match.get('epg_match'): match['source_file'] = basename"
Tag(m, basename) ==
    IF Truthy(m.epg_match)
    THEN [playlist_channel |-> m.playlist_channel, epg_match |-> m.epg_match,
          source_file |-> basename]
    ELSE m

TagAll(ms, basename) == [i \in 1..Len(ms) |-> Tag(ms[i], basename)]

\* match.get('source_file') is truthy
HasSource(m) == "source_file" \in DOMAIN m /\ m.source_file # ""

\* one pass of the loop over epg_files: the value of all_matches after it
MatchesAfterFile(all, playlist, f, thr) ==
    IF ~f.exists THEN all
    ELSE all \o TagAll(match_channels(playlist, f, thr), f.basename)

\* position of a key in the insertion-ordered dict, 0 when absent
KeyIndex(d, key) ==
    IF \E i \in 1..Len(d) : d[i].key = key
    THEN CHOOSE i \in 1..Len(d) : d[i].key = key
    ELSE 0

\* a replacement test that also replaces on an equal score
BetterOrEqualScore(new, existing) == ScoreGE(new.score, existing.score)

\* "match['epg_match']['score'] > existing_match['epg_match']['score']"
BetterScore(new, existing) == ScoreGT(new.score, existing.score)

\* a replacement test under which the last result always wins
ReplacesAlways(existing_match, match) == TRUE

\* the condition under which the dict slot is overwritten
Replaces(existing_match, match) ==
    \/ ~Truthy(existing_match.epg_match) /\ Truthy(match.epg_match)
    \/ /\ Truthy(existing_match.epg_match)
       /\ Truthy(match.epg_match)
       /\ BetterScore(match.epg_match, existing_match.epg_match)

FoldAt(d, match, at) ==
    IF at = 0
    THEN Append(d, [key |-> match.playlist_channel.name, value |-> match])
    ELSE IF Replaces(d[at].value, match)
         THEN [d EXCEPT ![at] = [key |-> d[at].key, value |-> match]]
         ELSE d

\* the body of the loop over all_matches
FoldOne(d, match) == FoldAt(d, match, KeyIndex(d, match.playlist_channel.name))

\* list(consolidated_matches.values())
Values(d) == [i \in 1..Len(d) |-> d[i].value]

(***************************************************************************)
(* generate_consolidated_epg_xml                                           *)
(***************************************************************************)
\* the value of an emitter that returned False: no document was written
Failed == [success |-> FALSE]

Written(chans, progs) == [success |-> TRUE, channels |-> chans, programmes |-> progs]

IsPerfect(m) == Truthy(m.epg_match) /\ m.epg_match.score = IntScore(100)

Included(m, perfect) == IF perfect THEN IsPerfect(m) ELSE Truthy(m.epg_match)

MatchesToInclude(ms, perfect) == SelectSeq(ms, LAMBDA m : Included(m, perfect))

\* match['epg_match']['epg_channel']['id'] raises TypeError on a None target
RaisesOnTarget(m) == m.epg_match.epg_channel = None

\* the distinct paths of the existing files, in order of first appearance:
\* the keys of epg_trees
RECURSIVE TreeIndexes(_, _)
TreeIndexes(files, i) ==
    IF i > Len(files) THEN <<>>
    ELSE IF files[i].exists /\ \A k \in 1..(i - 1) : files[k].path # files[i].path
         THEN << i >> \o TreeIndexes(files, i + 1)
         ELSE TreeIndexes(files, i + 1)

\* the first file whose basename is source_file, 0 when there is none
SourceIndex(files, source_file) ==
    IF \E i \in 1..Len(files) : files[i].basename = source_file
    THEN Min({i \in 1..Len(files) : files[i].basename = source_file})
    ELSE 0

\* root.find(".//channel[@id='...']"): the first such element, 0 for None
FindChannel(f, id) ==
    IF \E i \in 1..Len(f.channels) : f.channels[i].id = id
    THEN Min({i \in 1..Len(f.channels) : f.channels[i].id = id})
    ELSE 0

\* root.findall(".//channel[@id='...']")
FindAllChannels(f, id) == SelectSeq(f.channels, LAMBDA e : e.id = id)

\* the new channel element built from a source element
NewChannel(m, e) ==
    [id |-> m.epg_match.epg_channel.id, display_name |-> m.playlist_channel.name,
     icons |-> e.icons, others |-> e.others]

\* the file a match of the consolidated list resolves to is parsed
SourceParsed(files, src) == src # 0 /\ files[src].exists

\* the loop body reaches the creation of a channel element
AddsChannel(m, files, added, src) ==
    /\ SourceParsed(files, src)
    /\ m.epg_match.epg_channel.id \notin added
    /\ FindChannel(files[src], m.epg_match.epg_channel.id) # 0

SourceElement(m, f) == f.channels[FindChannel(f, m.epg_match.epg_channel.id)]

RECURSIVE ConsolidatedChannels(_, _, _, _, _)
ConsolidatedChannels(ms, files, k, chans, added) ==
    IF k > Len(ms) THEN [channels |-> chans, added |-> added]
    ELSE IF /\ HasSource(ms[k])
            /\ AddsChannel(ms[k], files, added, SourceIndex(files, ms[k].source_file))
         THEN ConsolidatedChannels(ms, files, k + 1,
                  Append(chans, NewChannel(ms[k],
                      SourceElement(ms[k],
                          files[SourceIndex(files, ms[k].source_file)]))),
                  added \cup {ms[k].epg_match.epg_channel.id})
         ELSE ConsolidatedChannels(ms, files, k + 1, chans, added)

\* a programme loop without "if channel_id in added_channel_ids"
ProgrammesOfAll(f, ids) == f.programmes

ProgrammesOf(f, ids) == SelectSeq(f.programmes, LAMBDA pr : pr.channel \in ids)

RECURSIVE ProgrammesOfTrees(_, _, _, _)
ProgrammesOfTrees(files, trees, k, ids) ==
    IF k > Len(trees) THEN <<>>
    ELSE ProgrammesOf(files[trees[k]], ids)
            \o ProgrammesOfTrees(files, trees, k + 1, ids)

ConsolidatedDocument(files, built) ==
    Written(built.channels,
            ProgrammesOfTrees(files, TreeIndexes(files, 1), 1, built.added))

ConsolidatedFrom(ms, files) ==
    IF ms = <<>> THEN Failed
    ELSE IF \E k \in 1..Len(ms) : HasSource(ms[k]) /\ RaisesOnTarget(ms[k])
         THEN Failed
         ELSE ConsolidatedDocument(files,
                  ConsolidatedChannels(ms, files, 1, <<>>, {}))

generate_consolidated_epg_xml(ms, files, perfect) ==
    ConsolidatedFrom(MatchesToInclude(ms, perfect), files)

(***************************************************************************)
(* process_epg_files as a state machine                                    *)
(***************************************************************************)
PlaylistPool == {
    <<>>,
    << PlaylistChannel(<< "B","B","C"," ","O","N","E"," ","H","D" >>) >>,
    << PlaylistChannel(<< "B","B","C"," ","O","N","E"," ","H","D" >>), PlaylistChannel(<< "B","B","C" >>) >>,
    << PlaylistChannel(<< "B","B","C" >>), PlaylistChannel(<< "B","B","C"," ","O","N","E"," ","H","D" >>) >>,
    << PlaylistChannel(<< "X","Y","Z" >>), PlaylistChannel(<< "B","B","C" >>), PlaylistChannel(<< "X","Y","Z" >>) >> }

FilePool == <<
    EpgFile("a", "uk.xml", TRUE,
        << ChannelElem("bbc1", << << "B","B","C"," ","1" >>, << "B","B","C"," ","O","n","e" >> >>, << "bbc1.png" >>, 0) >>,
        << Programme("bbc1", 1), Programme("bbc1", 2), Programme("itv", 1) >>),
    EpgFile("a", "us.xml", TRUE,
        << ChannelElem("bbc2", <<>>, <<>>, 0),
           ChannelElem("bbc2", << << "B","B","C"," ","T","W","O" >> >>, <<>>, 1),
           ChannelElem("xyz", << << " ","X","Y","Z"," " >> >>, <<>>, 0) >>,
        << Programme("bbc2", 1), Programme("xyz", 1) >>),
    EpgFile("b", "uk.xml", TRUE,
        << ChannelElem("bbc1hd", << << "B","B","C"," ","O","n","e"," ","H","D" >> >>, <<>>, 0),
           ChannelElem("bbc1", << << "B","B","C" >> >>, <<>>, 2) >>,
        << Programme("bbc1hd", 1), Programme("bbc1", 3) >>),
    EpgFile("a", "gone.xml", FALSE, <<>>, <<>>) >>

\* longest list of EPG files of a run
MaxFiles == 2

RECURSIVE FileLists(_)
FileLists(n) ==
    IF n = 0 THEN {<<>>}
    ELSE LET shorter == FileLists(n - 1)
         IN  shorter \cup
             {Append(l, FilePool[g]) :
                 l \in {x \in shorter : Len(x) = n - 1},
                 g \in 1..Len(FilePool)}

PipelineThresholds == {0, DefaultThreshold}

InitMatchIdle ==
    /\ channel = PlaylistChannel(<<>>)
    /\ epg_channels = <<>>
    /\ matchLog = <<>>

InitEpg ==
    /\ fuzzLib \in FuzzLibs
    /\ playlist_channels \in PlaylistPool
    /\ epg_files \in {l \in FileLists(MaxFiles) : Len(l) >= 1}
    /\ threshold \in PipelineThresholds
    /\ only_perfect \in BOOLEAN
    /\ pc = "files"
    /\ file_idx = 1
    /\ all_matches = <<>>
    /\ match_idx = 1
    /\ consolidated_matches = <<>>
    /\ final_matches = <<>>
    /\ output = <<>>
    /\ emitter = Idle
    /\ InitMatchIdle
    /\ InitCatalogIdle
    /\ InitToolsIdle

epgInputs == << fuzzLib, playlist_channels, epg_files, threshold, only_perfect,
                emitter, matchVars, catalogVars, toolVars >>

\* "if not playlist_channels: return False"
ReturnNoPlaylist ==
    /\ pc = "files"
    /\ playlist_channels = <<>>
    /\ output' = Failed
    /\ pc' = "done"
    /\ UNCHANGED << epgInputs, file_idx, all_matches, match_idx,
                    consolidated_matches, final_matches >>

\* one pass of "for epg_file in epg_files"
ProcessEpgFile ==
    /\ pc = "files"
    /\ playlist_channels # <<>>
    /\ file_idx <= Len(epg_files)
    /\ all_matches' = MatchesAfterFile(all_matches, playlist_channels,
                                       epg_files[file_idx], threshold)
    /\ file_idx' = file_idx + 1
    /\ pc' = IF file_idx = Len(epg_files) THEN "fold" ELSE "files"
    /\ UNCHANGED << epgInputs, match_idx, consolidated_matches, final_matches,
                    output >>

\* one pass of "for match in all_matches"
ConsolidateMatch ==
    /\ pc = "fold"
    /\ match_idx <= Len(all_matches)
    /\ consolidated_matches' = FoldOne(consolidated_matches, all_matches[match_idx])
    /\ match_idx' = match_idx + 1
    /\ UNCHANGED << epgInputs, pc, file_idx, all_matches, final_matches, output >>

\* the statements after the fold: the list of the dict's values and the call
\* of generate_consolidated_epg_xml
GenerateConsolidated ==
    /\ pc = "fold"
    /\ match_idx > Len(all_matches)
    /\ final_matches' = Values(consolidated_matches)
    /\ output' = generate_consolidated_epg_xml(Values(consolidated_matches),
                                               epg_files, only_perfect)
    /\ pc' = "done"
    /\ UNCHANGED << epgInputs, file_idx, all_matches, match_idx,
                    consolidated_matches >>

NextEpg ==
    \/ ReturnNoPlaylist
    \/ ProcessEpgFile
    \/ ConsolidateMatch
    \/ GenerateConsolidated

SpecEpg == InitEpg /\ [][NextEpg]_vars

(***************************************************************************)
(* generate_filtered_epg_xml of match_channels.py and of epg_matcher.py    *)
(***************************************************************************)
FilteredIds(ms) == {ms[k].epg_match.epg_channel.id : k \in 1..Len(ms)}

NewChannels(m, elems) == [i \in 1..Len(elems) |-> NewChannel(m, elems[i])]

\* match_channels.py: one new channel for every element with the matched id
RECURSIVE FilteredChannels(_, _, _)
FilteredChannels(ms, f, k) ==
    IF k > Len(ms) THEN <<>>
    ELSE NewChannels(ms[k], FindAllChannels(f, ms[k].epg_match.epg_channel.id))
            \o FilteredChannels(ms, f, k + 1)

\* epg_matcher.py: "if not channel_template: continue"
TemplateUsable(f, at) == at # 0 /\ ElementTruthy(f.channels[at])

\* epg_matcher.py: one new channel from the first element with the matched id
RECURSIVE TemplateChannels(_, _, _)
TemplateChannels(ms, f, k) ==
    IF k > Len(ms) THEN <<>>
    ELSE IF TemplateUsable(f, FindChannel(f, ms[k].epg_match.epg_channel.id))
         THEN << NewChannel(ms[k], SourceElement(ms[k], f)) >>
                 \o TemplateChannels(ms, f, k + 1)
         ELSE TemplateChannels(ms, f, k + 1)

FilteredFrom(ms, f) ==
    IF ms = <<>> THEN Failed
    ELSE IF \E k \in 1..Len(ms) : RaisesOnTarget(ms[k]) THEN Failed
         ELSE Written(FilteredChannels(ms, f, 1), ProgrammesOf(f, FilteredIds(ms)))

generate_filtered_epg_xml(ms, f, perfect) ==
    IF ~f.exists THEN Failed ELSE FilteredFrom(MatchesToInclude(ms, perfect), f)

TemplateFilteredFrom(ms, f) ==
    IF ms = <<>> THEN Failed
    ELSE IF \E k \in 1..Len(ms) : RaisesOnTarget(ms[k]) THEN Failed
         ELSE Written(TemplateChannels(ms, f, 1), ProgrammesOf(f, FilteredIds(ms)))

epg_matcher_generate_filtered_epg_xml(ms, f, perfect) ==
    IF ~f.exists THEN Failed
    ELSE TemplateFilteredFrom(MatchesToInclude(ms, perfect), f)

(***************************************************************************)
(* The single-document pipeline: match_channels, then the module's         *)
(* generate_filtered_epg_xml on the same file                              *)
(***************************************************************************)
Emitters == {"match_channels", "epg_matcher"}

InitFiltered ==
    /\ fuzzLib \in FuzzLibs
    /\ emitter \in Emitters
    /\ playlist_channels \in PlaylistPool \ {<<>>}
    /\ epg_files \in {l \in FileLists(1) : Len(l) = 1}
    /\ threshold \in PipelineThresholds
    /\ only_perfect \in BOOLEAN
    /\ pc = "match"
    /\ file_idx = 1
    /\ all_matches = <<>>
    /\ match_idx = 1
    /\ consolidated_matches = <<>>
    /\ final_matches = <<>>
    /\ output = <<>>
    /\ InitMatchIdle
    /\ InitCatalogIdle
    /\ InitToolsIdle

\* matches = match_channels(playlist_channels, epg_file, threshold)
MatchChannels ==
    /\ pc = "match"
    /\ final_matches' = match_channels(playlist_channels, epg_files[1], threshold)
    /\ pc' = "emit"
    /\ UNCHANGED << epgInputs, file_idx, all_matches, match_idx,
                    consolidated_matches, output >>

\* generate_filtered_epg_xml(matches, epg_file, output_file, only_perfect)
GenerateFiltered ==
    /\ pc = "emit"
    /\ output' = IF emitter = "epg_matcher"
                 THEN epg_matcher_generate_filtered_epg_xml(
                          final_matches, epg_files[1], only_perfect)
                 ELSE generate_filtered_epg_xml(
                          final_matches, epg_files[1], only_perfect)
    /\ pc' = "done"
    /\ UNCHANGED << epgInputs, file_idx, all_matches, match_idx,
                    consolidated_matches, final_matches >>

NextFiltered == MatchChannels \/ GenerateFiltered

SpecFiltered == InitFiltered /\ [][NextFiltered]_vars

(***************************************************************************)
(* Properties of process_epg_files and of the emitters                     *)
(***************************************************************************)
\* what matching the playlist record ch against each file alone returns;
\* None for a file that gives no results
ResultsIn(ch) ==
    [i \in 1..Len(epg_files) |->
        IF epg_files[i].exists /\ load_epg_channels(epg_files[i]) # <<>>
        THEN find_best_match(ch, load_epg_channels(epg_files[i]), threshold)
        ELSE None]

MatchedIn(res) == {i \in DOMAIN res : res[i] # None}

\* the first processed file among those giving the highest score
BestFile(res) ==
    CHOOSE i \in MatchedIn(res) :
        \A j \in MatchedIn(res) :
            \/ ScoreGT(res[i].score, res[j].score)
            \/ res[i].score = res[j].score /\ i <= j

KeptFrom(ch, res, i) ==
    [playlist_channel |-> ch, epg_match |-> res[i],
     source_file |-> epg_files[i].basename]

\* C2: an entry matched in one or several documents ends with the highest of
\* their scores, the epg channel and the source_file of the document that
\* gave it, in whatever order the documents were processed; on equal scores
\* the result of the first processed document is kept.
C2_ConsolidationKeepsBest ==
    pc = "done" =>
        \A p \in 1..Len(playlist_channels) :
            LET res == ResultsIn(playlist_channels[p])
            IN  MatchedIn(res) # {} =>
                    \E k \in 1..Len(final_matches) :
                        final_matches[k]
                            = KeptFrom(playlist_channels[p], res, BestFile(res))

\* two documents; one entry scores higher in the second and carries the
\* second's tag, another scores the same in both and keeps the first's target
C2_Witness ==
    /\ pc = "done"
    /\ Len(epg_files) = 2
    /\ epg_files[1].basename # epg_files[2].basename
    /\ \E p, q \in 1..Len(playlist_channels) :
          LET rp == ResultsIn(playlist_channels[p])
              rq == ResultsIn(playlist_channels[q])
          IN  /\ MatchedIn(rp) = {1, 2}
              /\ MatchedIn(rq) = {1, 2}
              /\ ScoreGT(rp[2].score, rp[1].score)
              /\ rq[1].score = rq[2].score
              /\ rq[1].epg_channel # rq[2].epg_channel
              /\ \E k, l \in 1..Len(final_matches) :
                    /\ final_matches[k] = KeptFrom(playlist_channels[p], rp, 2)
                    /\ final_matches[l] = KeptFrom(playlist_channels[q], rq, 1)

NamesOf(ms) == {ms[k].playlist_channel.name : k \in 1..Len(ms)}

\* the final list has one result per raw name of the per-document results
OnePerName ==
    pc = "done" =>
        /\ NamesOf(final_matches) = NamesOf(all_matches)
        /\ \A k, l \in 1..Len(final_matches) :
              final_matches[k].playlist_channel.name
                  = final_matches[l].playlist_channel.name => k = l

\* a slot of the dict that holds a matched result holds one after the step
MatchedStaysMatched ==
    \A i \in 1..Len(consolidated_matches) :
        Truthy(consolidated_matches[i].value.epg_match) =>
            /\ i <= Len(consolidated_matches')
            /\ consolidated_matches'[i].key = consolidated_matches[i].key
            /\ Truthy(consolidated_matches'[i].value.epg_match)

\* a fold step that brings a matched result for a name whose slot holds an
\* unmatched one puts that result in the slot
UnmatchedGivesWay ==
    (pc = "fold" /\ match_idx' = match_idx + 1) =>
        \A i \in 1..Len(consolidated_matches) :
            (/\ consolidated_matches[i].key
                    = all_matches[match_idx].playlist_channel.name
             /\ ~Truthy(consolidated_matches[i].value.epg_match)
             /\ Truthy(all_matches[match_idx].epg_match))
                => consolidated_matches'[i].value = all_matches[match_idx]

\* C3: after the fold the final list holds exactly one result per distinct
\* raw name; a matched result is never replaced by an unmatched one; an
\* unmatched result is replaced by the first matched result seen later for
\* the same raw name.
C3_FoldKeepsOnePerName ==
    /\ []OnePerName
    /\ [][MatchedStaysMatched]_vars
    /\ [][UnmatchedGivesWay]_vars

\* positions in all_matches of the results for a raw name
ResultsFor(name) ==
    {k \in 1..Len(all_matches) : all_matches[k].playlist_channel.name = name}

\* the fold is over; one name was unmatched and then matched, another was
\* matched and then unmatched, and both ended matched
C3_Witness ==
    /\ pc = "done"
    /\ \E k, l \in 1..Len(final_matches) :
          /\ \E a, b \in ResultsFor(final_matches[k].playlist_channel.name) :
                /\ a = Min(ResultsFor(final_matches[k].playlist_channel.name))
                /\ ~Truthy(all_matches[a].epg_match)
                /\ b > a
                /\ final_matches[k] = all_matches[b]
                /\ Truthy(all_matches[b].epg_match)
          /\ \E a, b \in ResultsFor(final_matches[l].playlist_channel.name) :
                /\ a < b
                /\ Truthy(all_matches[a].epg_match)
                /\ ~Truthy(all_matches[b].epg_match)
                /\ final_matches[l] = all_matches[a]

\* C4: every programme element of a written document has a channel attribute
\* that is the id of some channel element of the same document.
C4_NoOrphanProgrammes ==
    (pc = "done" /\ output.success) =>
        \A i \in 1..Len(output.programmes) :
            \E j \in 1..Len(output.channels) :
                output.channels[j].id = output.programmes[i].channel

(***************************************************************************)
(* create_channel_list.py: the catalog index and match_channels            *)
(***************************************************************************)
\* a <channel> element of a catalog file of site `site`
CatalogElem(site, site_id, xmltv_id, text) ==
    [site |-> site, site_id |-> site_id, xmltv_id |-> xmltv_id, lang |-> "en",
     text |-> text]

mapping_data(e) ==
    [site |-> e.site, site_id |-> e.site_id, xmltv_id |-> e.xmltv_id,
     lang |-> e.lang, original_name |-> Strip(e.text)]

\* d[key] = value on an insertion-ordered dict
DictSet(d, key, value, at) ==
    IF at = 0 THEN Append(d, [key |-> key, value |-> value])
    ELSE [d EXCEPT ![at] = [key |-> key, value |-> value]]

\* the body of the loop over the channel elements
LoadOne(d, e) ==
    IF e.site_id # "" /\ Strip(e.text) # <<>>
    THEN DictSet(d, normalize_channel_name(Strip(e.text)), mapping_data(e),
                 KeyIndex(d, normalize_channel_name(Strip(e.text))))
    ELSE d

RECURSIVE LoadMappingsFrom(_, _, _)
LoadMappingsFrom(d, elems, i) ==
    IF i > Len(elems) THEN d
    ELSE LoadMappingsFrom(LoadOne(d, elems[i]), elems, i + 1)

\* the normalized_mappings that load_channel_mappings returns
load_channel_mappings(elems) == LoadMappingsFrom(<<>>, elems, 1)

\* list(channel_mappings.keys())
mapping_names(d) == [i \in 1..Len(d) |-> d[i].key]

\* channel_mappings[key]
Lookup(d, key) == d[KeyIndex(d, key)].value

calculate_similarity(str1, str2) ==
    Rat(SeqRatio(str1, str2)[1], SeqRatio(str1, str2)[2])

\* the literal 0.8 of process_channel
SimilarityBar == [num |-> 4, den |-> 5]

\* a bar that lets a score equal to it through
ReachesBar(score) == ScoreGE(score, SimilarityBar)

\* "score > 0.8"
ExceedsBar(score) == ScoreGT(score, SimilarityBar)

\* an improvement test that also replaces on an equal score
ImprovesOrTies(score, best_score) == ScoreGE(score, best_score)

\* "score > best_score"
ImprovesBest(score, best_score) == ScoreGT(score, best_score)

\* "name and name[0] == first_char", first_char being '' for an empty name
SharesFirstChar(name, normalized_name) ==
    /\ name # <<>>
    /\ normalized_name # <<>>
    /\ name[1] = normalized_name[1]

potential_matches(names, normalized_name) ==
    SelectSeq(names, LAMBDA name : SharesFirstChar(name, normalized_name))

\* a unit of work of the pool: process_channel((channel, normalized_name))
\* with its position and the locals best_match and best_score
Unit(ch) ==
    [channel |-> ch, normalized_name |-> normalize_channel_name(ch.clean_name),
     status |-> "queued", k |-> 0, best_score |-> IntScore(0), best_match |-> None]

DirectResult(ch, mapping) ==
    [playlist_channel |-> ch, mapping |-> mapping, match_type |-> "direct"]

PartialResult(ch, mapping, score) ==
    [playlist_channel |-> ch, mapping |-> mapping, match_type |-> "partial",
     score |-> score]

NoResult(ch) == [playlist_channel |-> ch, mapping |-> None, match_type |-> "none"]

\* the if statement of the loop over potential_matches
ScanOne(u, d, mapping_name, score) ==
    IF ImprovesBest(score, u.best_score) /\ ExceedsBar(score)
    THEN [u EXCEPT !.best_score = score, !.best_match = Lookup(d, mapping_name),
                   !.k = u.k + 1]
    ELSE [u EXCEPT !.k = u.k + 1]

\* the statements after the loop
ScanResult(u) ==
    IF u.best_match # None
    THEN PartialResult(u.channel, u.best_match, u.best_score)
    ELSE NoResult(u.channel)

\* max_workers = min(32, os.cpu_count() * 4) on a single-processor machine
max_workers == 4

(***************************************************************************)
(* create_channel_list.match_channels as a state machine: the units of     *)
(* work of executor.map run concurrently, one step of process_channel at   *)
(* a time, on the shared index                                             *)
(***************************************************************************)
CatalogPool == <<
    CatalogElem("site1", "s2", << "S","k","y","2",".","u","k" >>, << "S","k","y"," ","2" >>),
    CatalogElem("site1", "s10", << "S","k","y","1","0",".","u","k" >>, << "S","k","y"," ","1","0" >>),
    CatalogElem("site2", "s11", <<>>, << "S","k","y"," ","1","1" >>),
    CatalogElem("site2", "a1", << "A","S","k","y","1",".","u","k" >>, << "A","S","k","y"," ","1" >>),
    CatalogElem("site3", "s1", << "S","k","y","1",".","u","k" >>, << "S","k","y"," ","1"," ","T","V" >>),
    CatalogElem("site3", "s2hd", << "S","k","y","2","H","D",".","u","k" >>, << "S","k","y"," ","2"," ","H","D" >>),
    CatalogElem("site4", "dash", <<>>, << "-" >>) >>

\* longest list of catalog elements of a run
MaxCatalog == 2

RECURSIVE CatalogLists(_)
CatalogLists(n) ==
    IF n = 0 THEN {<<>>}
    ELSE LET shorter == CatalogLists(n - 1)
         IN  shorter \cup
             {l \in {Append(x, CatalogPool[g]) :
                        x \in shorter, g \in 1..Len(CatalogPool)} :
                 /\ Len(l) = n
                 /\ \A i, j \in 1..n : i # j => l[i] # l[j]}

CatalogPlaylists == {
    << PlaylistChannel(<< "S","k","y"," ","1"," ","H","D" >>) >>,
    << PlaylistChannel(<< "S","k","y"," ","1"," ","H","D" >>), PlaylistChannel(<< "S","k","y"," ","1"," ","H","D" >>) >>,
    << PlaylistChannel(<< "S","k","y"," ","1"," ","H","D" >>), PlaylistChannel(<< "S","k","y"," ","2"," ","T","V" >>),
       PlaylistChannel(<< "S","k","y"," ","2","0" >>) >>,
    << PlaylistChannel(<< "." >>), PlaylistChannel(<< "S","k","y"," ","2" >>) >> }

Pending == [pending |-> TRUE]

InitCatalog ==
    /\ fuzzLib = Idle
    /\ playlist_channels \in CatalogPlaylists
    /\ channel_mappings \in {load_channel_mappings(l) :
                               l \in CatalogLists(MaxCatalog) \ {<<>>}}
    /\ units = <<>>
    /\ futures = <<>>
    /\ matches = <<>>
    /\ pc = "normalize"
    /\ epg_files = <<>>
    /\ threshold = DefaultThreshold
    /\ only_perfect = FALSE
    /\ file_idx = 0
    /\ all_matches = <<>>
    /\ match_idx = 0
    /\ consolidated_matches = <<>>
    /\ final_matches = <<>>
    /\ output = <<>>
    /\ emitter = Idle
    /\ InitMatchIdle
    /\ InitToolsIdle

catalogFrame == << fuzzLib, playlist_channels, channel_mappings, epg_files,
                   threshold, only_perfect, file_idx, all_matches, match_idx,
                   consolidated_matches, final_matches, output, emitter,
                   matchVars, toolVars >>

\* the normalization loop and the submission of every unit to the pool
SubmitUnits ==
    /\ pc = "normalize"
    /\ units' = [i \in 1..Len(playlist_channels) |-> Unit(playlist_channels[i])]
    /\ futures' = [i \in 1..Len(playlist_channels) |-> Pending]
    /\ pc' = "pool"
    /\ UNCHANGED << catalogFrame, matches >>

Running == {u \in 1..Len(units) : units[u].status \in {"running", "scanning"}}

\* a worker thread takes the next unit of the queue
StartUnit(u) ==
    /\ pc = "pool"
    /\ units[u].status = "queued"
    /\ \A v \in 1..(u - 1) : units[v].status # "queued"
    /\ Cardinality(Running) < max_workers
    /\ units' = [units EXCEPT ![u].status = "running"]
    /\ UNCHANGED << catalogFrame, futures, matches, pc >>

\* "if normalized_name in channel_mappings"
DirectLookup(u) ==
    /\ pc = "pool"
    /\ units[u].status = "running"
    /\ IF KeyIndex(channel_mappings, units[u].normalized_name) # 0
       THEN /\ futures' = [futures EXCEPT ![u] =
                   DirectResult(units[u].channel,
                                Lookup(channel_mappings, units[u].normalized_name))]
            /\ units' = [units EXCEPT ![u].status = "done"]
       ELSE /\ units' = [units EXCEPT ![u].status = "scanning", ![u].k = 1]
            /\ UNCHANGED futures
    /\ UNCHANGED << catalogFrame, matches, pc >>

CandidatesOf(u) ==
    potential_matches(mapping_names(channel_mappings), units[u].normalized_name)

\* one pass of "for mapping_name in potential_matches"
ScanCandidate(u) ==
    /\ pc = "pool"
    /\ units[u].status = "scanning"
    /\ units[u].k <= Len(CandidatesOf(u))
    /\ units' = [units EXCEPT ![u] =
           ScanOne(units[u], channel_mappings, CandidatesOf(u)[units[u].k],
                   calculate_similarity(units[u].normalized_name,
                                        CandidatesOf(u)[units[u].k]))]
    /\ UNCHANGED << catalogFrame, futures, matches, pc >>

\* a return that hands the result to the first future still pending, as a
\* pool that yields results in completion order would
ReturnResultInCompletionOrder(u) ==
    /\ pc = "pool"
    /\ units[u].status = "scanning"
    /\ units[u].k > Len(CandidatesOf(u))
    /\ futures' = [futures EXCEPT
                     ![Min({v \in 1..Len(futures) : futures[v] = Pending})] =
                         ScanResult(units[u])]
    /\ units' = [units EXCEPT ![u].status = "done"]
    /\ UNCHANGED << catalogFrame, matches, pc >>

\* a return that also stores a partial match in the index under the
\* normalized name of the channel
ReturnResultCachingMatch(u) ==
    /\ pc = "pool"
    /\ units[u].status = "scanning"
    /\ units[u].k > Len(CandidatesOf(u))
    /\ futures' = [futures EXCEPT ![u] = ScanResult(units[u])]
    /\ units' = [units EXCEPT ![u].status = "done"]
    /\ channel_mappings' =
          IF units[u].best_match # None
          THEN Append(channel_mappings,
                      [key |-> units[u].normalized_name,
                       value |-> units[u].best_match])
          ELSE channel_mappings
    /\ UNCHANGED << fuzzLib, playlist_channels, epg_files, threshold,
                    only_perfect, file_idx, all_matches, match_idx,
                    consolidated_matches, final_matches, output, emitter,
                    matchVars, toolVars, matches, pc >>

\* process_channel returns after the loop
ReturnResult(u) ==
    /\ pc = "pool"
    /\ units[u].status = "scanning"
    /\ units[u].k > Len(CandidatesOf(u))
    /\ futures' = [futures EXCEPT ![u] = ScanResult(units[u])]
    /\ units' = [units EXCEPT ![u].status = "done"]
    /\ UNCHANGED << catalogFrame, matches, pc >>

\* list(executor.map(...)): every result, in the order of the inputs
CollectResults ==
    /\ pc = "pool"
    /\ \A u \in 1..Len(units) : units[u].status = "done"
    /\ matches' = futures
    /\ pc' = "done"
    /\ UNCHANGED << catalogFrame, units, futures >>

NextCatalog ==
    \/ SubmitUnits
    \/ \E u \in 1..Len(units) : StartUnit(u)
    \/ \E u \in 1..Len(units) : DirectLookup(u)
    \/ \E u \in 1..Len(units) : ScanCandidate(u)
    \/ \E u \in 1..Len(units) : ReturnResult(u)
    \/ CollectResults

SpecCatalog == InitCatalog /\ [][NextCatalog]_vars

(***************************************************************************)
(* Properties of catalog matching                                          *)
(***************************************************************************)
NormalizedOf(ch) == normalize_channel_name(ch.clean_name)

\* positions of the index keys that share the first character of n
SameFirstChar(n) ==
    {k \in 1..Len(channel_mappings) :
        /\ n # <<>>
        /\ channel_mappings[k].key # <<>>
        /\ channel_mappings[k].key[1] = n[1]}

\* 2M/T of the key at position k against n, as the pair << 2M, T >>
KeyRatio(n, k) == SeqRatio(n, channel_mappings[k].key)

\* the similarity is strictly greater than 0.8
Over80(n, k) == 5 * KeyRatio(n, k)[1] > 4 * KeyRatio(n, k)[2]

\* the similarity is exactly 0.8
Exactly80(n, k) == 5 * KeyRatio(n, k)[1] = 4 * KeyRatio(n, k)[2]

IsKey(n) == \E k \in 1..Len(channel_mappings) : channel_mappings[k].key = n

\* C9: a channel whose normalized name is a key of the index gets a direct
\* match to that key's entry; otherwise it gets a partial match only to an
\* entry whose key shares the first character of the normalized name with a
\* similarity strictly greater than 0.8, and no match when there is no such
\* key (a best similarity of exactly 0.8 is no match).
C9_DirectThenPartialAboveBar ==
    pc = "done" =>
        \A i \in 1..Len(playlist_channels) :
            LET n == NormalizedOf(playlist_channels[i])
                good == {k \in SameFirstChar(n) : Over80(n, k)}
            IN  IF IsKey(n)
                THEN \E k \in 1..Len(channel_mappings) :
                        /\ channel_mappings[k].key = n
                        /\ matches[i] = [playlist_channel |-> playlist_channels[i],
                                         mapping |-> channel_mappings[k].value,
                                         match_type |-> "direct"]
                ELSE IF good = {}
                     THEN matches[i] = [playlist_channel |-> playlist_channels[i],
                                        mapping |-> None, match_type |-> "none"]
                     ELSE /\ matches[i].match_type = "partial"
                          /\ matches[i].playlist_channel = playlist_channels[i]
                          /\ \E k \in good :
                                matches[i].mapping = channel_mappings[k].value

\* one run with a direct match, a partial match, and a channel left without
\* a match whose best candidate has similarity exactly 0.8
C9_Witness ==
    /\ pc = "done"
    /\ \E i, j, l \in 1..Len(playlist_channels) :
          /\ matches[i].match_type = "direct"
          /\ matches[j].match_type = "partial"
          /\ matches[l].match_type = "none"
          /\ \E k \in SameFirstChar(NormalizedOf(playlist_channels[l])) :
                Exactly80(NormalizedOf(playlist_channels[l]), k)

\* the first key, in index order, among the candidates of n with the highest
\* similarity
FirstBestKey(n) ==
    CHOOSE k \in SameFirstChar(n) :
        \A o \in SameFirstChar(n) :
            /\ KeyRatio(n, k)[1] * KeyRatio(n, o)[2]
                  >= KeyRatio(n, o)[1] * KeyRatio(n, k)[2]
            /\ o < k => KeyRatio(n, k)[1] * KeyRatio(n, o)[2]
                            > KeyRatio(n, o)[1] * KeyRatio(n, k)[2]

\* C10: a partial match is the entry of the first key in index order among
\* the candidate keys with the highest similarity, and two units of work for
\* the same channel end with the same result however the workers interleave.
C10_FirstBestKeyWins ==
    pc = "done" =>
        /\ \A i \in 1..Len(playlist_channels) :
              matches[i].match_type = "partial" =>
                  matches[i].mapping
                      = channel_mappings[
                            FirstBestKey(NormalizedOf(playlist_channels[i]))].value
        /\ \A i, j \in 1..Len(playlist_channels) :
              playlist_channels[i] = playlist_channels[j]
                  => matches[i] = matches[j]

\* two units for the same channel; two keys with different entries tie at
\* the highest similarity and the entry of the earlier key is returned
C10_Witness ==
    /\ pc = "done"
    /\ \E i, j \in 1..Len(playlist_channels) :
          /\ i # j
          /\ playlist_channels[i] = playlist_channels[j]
          /\ matches[i].match_type = "partial"
          /\ \E a, b \in SameFirstChar(NormalizedOf(playlist_channels[i])) :
                /\ a < b
                /\ a = FirstBestKey(NormalizedOf(playlist_channels[i]))
                /\ KeyRatio(NormalizedOf(playlist_channels[i]), a)
                      = KeyRatio(NormalizedOf(playlist_channels[i]), b)
                /\ channel_mappings[a].value # channel_mappings[b].value
                /\ matches[i].mapping = channel_mappings[a].value

(***************************************************************************)
(* Properties of the consolidated document                                 *)
(***************************************************************************)
\* the results generate_consolidated_epg_xml keeps of the list it is given
Surviving == MatchesToInclude(final_matches, only_perfect)

\* the existing documents with the tag of m that hold the channel m matched
OriginDocs(m) ==
    {i \in 1..Len(epg_files) :
        /\ epg_files[i].exists
        /\ epg_files[i].basename = m.source_file
        /\ \E j \in 1..Len(load_epg_channels(epg_files[i])) :
              load_epg_channels(epg_files[i])[j] = m.epg_match.epg_channel}

\* the channel elements of f that load as the channel m matched
MatchedElements(f, m) ==
    {e \in Range(f.channels) :
        Loadable(e) /\ LoadedChannel(e) = m.epg_match.epg_channel}

\* the channel element the consolidated document owes to m and element e
Rebranded(m, e) ==
    [id |-> e.id, display_name |-> m.playlist_channel.name,
     icons |-> e.icons, others |-> e.others]

DocumentWritten == pc = "done" /\ output # Failed

\* C13: for every surviving matched result whose source document parsed and
\* contains the matched channel id, the written document has a channel
\* element with the playlist channel's raw name as display name and the other
\* children of the matched channel element of that source document, also
\* when two playlist channels are matched to the same guide channel id.
C13_EverySurvivorIsRebranded ==
    DocumentWritten =>
        \A k \in 1..Len(Surviving) :
            LET m == Surviving[k]
            IN  (HasSource(m) /\ OriginDocs(m) # {}) =>
                    \E c \in Range(output.channels) :
                        \E i \in OriginDocs(m) :
                            \E e \in MatchedElements(epg_files[i], m) :
                                c = Rebranded(m, e)

\* positions of the surviving results that refer to the channel id
RefersTo(id) ==
    {k \in 1..Len(Surviving) :
        HasSource(Surviving[k]) /\ Surviving[k].epg_match.epg_channel.id = id}

\* the element c has the children of an element with its id in a source
\* document of m
ChildrenFromSourceOf(c, m) ==
    \E i \in OriginDocs(m) :
        \E e \in Range(epg_files[i].channels) :
            e.id = c.id /\ e.icons = c.icons /\ e.others = c.others

\* C14: in the written document each channel id is on at most one channel
\* element, and that element is built from the first result in list order
\* that refers to the id: it has that result's playlist name as display name
\* and children taken from that result's source document.
C14_FirstMatchWinsTheId ==
    DocumentWritten =>
        /\ \A a, b \in 1..Len(output.channels) :
              output.channels[a].id = output.channels[b].id => a = b
        /\ \A a \in 1..Len(output.channels) :
              /\ RefersTo(output.channels[a].id) # {}
              /\ output.channels[a].display_name
                    = Surviving[Min(RefersTo(output.channels[a].id))]
                          .playlist_channel.name
              /\ ChildrenFromSourceOf(
                     output.channels[a],
                     Surviving[Min(RefersTo(output.channels[a].id))])

\* process_channel run from its first statement to its return, alone
RECURSIVE ScanAll(_, _, _)
ScanAll(u, d, candidates) ==
    IF u.k > Len(candidates) THEN ScanResult(u)
    ELSE ScanAll(ScanOne(u, d, candidates[u.k],
                         calculate_similarity(u.normalized_name, candidates[u.k])),
                 d, candidates)

ProcessUnit(u, d) ==
    IF KeyIndex(d, u.normalized_name) # 0
    THEN DirectResult(u.channel, Lookup(d, u.normalized_name))
    ELSE ScanAll([u EXCEPT !.k = 1], d,
                 potential_matches(mapping_names(d), u.normalized_name))

process_channel(ch, d) == ProcessUnit(Unit(ch), d)

\* C11: match_channels returns exactly one result per playlist channel and
\* result i is the result of process_channel for playlist channel i, whatever
\* the order in which the workers start and complete their units; every
\* future that is resolved holds the result of its own channel.
C11_ResultsInInputOrder ==
    /\ \A u \in 1..Len(futures) :
          futures[u] # Pending
              => futures[u] = process_channel(playlist_channels[u], channel_mappings)
    /\ pc = "done" =>
          /\ Len(matches) = Len(playlist_channels)
          /\ \A i \in 1..Len(playlist_channels) :
                matches[i] = process_channel(playlist_channels[i], channel_mappings)

\* a finished run over three different channels whose three results differ
C11_Witness ==
    /\ pc = "done"
    /\ Len(matches) = 3
    /\ \A i, j \in 1..3 :
          i # j => /\ playlist_channels[i] # playlist_channels[j]
                   /\ matches[i].match_type # matches[j].match_type
    /\ \A i \in 1..3 : matches[i].playlist_channel = playlist_channels[i]

\* C12: during a matching pass no step of any worker writes the catalog index
\* or the playlist records, under every interleaving of the workers.
C12_WorkersOnlyRead ==
    [][/\ channel_mappings' = channel_mappings
       /\ playlist_channels' = playlist_channels]_vars

\* two workers are inside the candidate loop at the same time and one of
\* them has a partial match in hand
C12_Witness ==
    /\ pc = "pool"
    /\ \E u, v \in 1..Len(units) :
          /\ u # v
          /\ units[u].status = "scanning"
          /\ units[v].status = "scanning"
          /\ units[u].best_match # None

\* the documents that parsed: one per path of an existing file
ParsedDocs ==
    {i \in 1..Len(epg_files) :
        /\ epg_files[i].exists
        /\ \A k \in 1..(i - 1) : epg_files[k].path # epg_files[i].path}

\* the number of programme elements equal to p in the parsed documents
RECURSIVE OccurrencesFrom(_, _)
OccurrencesFrom(p, i) ==
    IF i > Len(epg_files) THEN 0
    ELSE (IF i \in ParsedDocs THEN Count(epg_files[i].programmes, p) ELSE 0)
            + OccurrencesFrom(p, i + 1)

RetainedIds == {output.channels[a].id : a \in 1..Len(output.channels)}

KnownProgrammes ==
    Range(output.programmes)
        \cup UNION {Range(epg_files[i].programmes) : i \in 1..Len(epg_files)}

\* C15: a written document holds every programme element of every parsed
\* document whose channel is an id retained in the output, as many times as
\* it occurs in those documents, whichever document the channel was matched
\* in, and holds no programme of an id that is not retained.
C15_ProgrammesOfRetainedIds ==
    DocumentWritten =>
        \A p \in KnownProgrammes :
            Count(output.programmes, p) =
                IF p.channel \in RetainedIds THEN OccurrencesFrom(p, 1) ELSE 0

\* a written document holds a programme taken from a document other than the
\* one its channel element was taken from, and a programme of a parsed
\* document was left out
C15_Witness ==
    /\ DocumentWritten
    /\ \E i \in ParsedDocs : \E p \in Range(epg_files[i].programmes) :
          /\ p \in Range(output.programmes)
          /\ RefersTo(p.channel) # {}
          /\ SourceIndex(epg_files,
                 Surviving[Min(RefersTo(p.channel))].source_file) # i
    /\ \E i \in ParsedDocs : \E p \in Range(epg_files[i].programmes) :
          p \notin Range(output.programmes)

\* the fold of process_epg_files over a whole list of results
RECURSIVE FoldFrom(_, _, _)
FoldFrom(d, ms, k) ==
    IF k > Len(ms) THEN d ELSE FoldFrom(FoldOne(d, ms[k]), ms, k + 1)

\* the results that are matched with score 100 are kept first; the grouping
\* and the emission run on what is left
FilteredFirst ==
    generate_consolidated_epg_xml(
        Values(FoldFrom(<<>>, SelectSeq(all_matches, IsPerfect), 1)),
        epg_files, TRUE)

\* the channel ids and display names of a document, none when none is written
Emitted(doc) ==
    IF doc = Failed THEN {}
    ELSE {<< doc.channels[a].id, doc.channels[a].display_name >> :
              a \in 1..Len(doc.channels)}

FinalResultsOf(name) ==
    {k \in 1..Len(final_matches) : final_matches[k].playlist_channel.name = name}

\* C16: with onlyPerfect the channels and display names written after the
\* grouping are those that filtering to score 100 before the grouping
\* would give, and every written channel carries the name of a playlist
\* channel whose surviving result has score 100.
C16_PerfectFilterCommutes ==
    (pc = "done" /\ only_perfect) =>
        /\ Emitted(output) = Emitted(FilteredFirst)
        /\ \A e \in Emitted(output) : \A k \in FinalResultsOf(e[2]) :
              IsPerfect(final_matches[k])

(***************************************************************************)
(* load_playlist_channels (match_channels.py, create_channel_list.py)      *)
(***************************************************************************)
\* the first position at which pat occurs in s, 0 when there is none
FindSub(s, pat) ==
    IF \E p \in 1..(Len(s) - Len(pat) + 1) : SubSeq(s, p, p + Len(pat) - 1) = pat
    THEN Min({p \in 1..(Len(s) - Len(pat) + 1) :
                 SubSeq(s, p, p + Len(pat) - 1) = pat})
    ELSE 0

ExtinfTag == << "#", "E", "X", "T", "I", "N", "F" >>

\* lines[i].startswith("#EXTINF")
IsExtinf(line) == StartsWith(line, ExtinfTag)

\* lines[i + 1].startswith("#")
IsHashLine(line) == StartsWith(line, << "#" >>)

\* re.search(r',(.+)$', channel_info): the leftmost comma that has at least
\* one character after it, 0 for no match
NameComma(line) ==
    IF \E p \in 1..(Len(line) - 1) : line[p] = ","
    THEN Min({p \in 1..(Len(line) - 1) : line[p] = ","})
    ELSE 0

\* channel_name_match.group(1).strip()
ChannelNameOf(line) == Strip(Drop(line, NameComma(line)))

TvgIdAttr == << "t", "v", "g", "-", "i", "d", "=", "\"" >>

\* re.search(r'tvg-id="([^"]*)"', channel_info), "" when there is no match
TvgIdAfter(rest) ==
    IF FindSub(rest, << "\"" >>) = 0 THEN <<>>
    ELSE SubSeq(rest, 1, FindSub(rest, << "\"" >>) - 1)

TvgIdOf(line) ==
    IF FindSub(line, TvgIdAttr) = 0 THEN <<>>
    ELSE TvgIdAfter(Drop(line, FindSub(line, TvgIdAttr) + Len(TvgIdAttr) - 1))

\* "if country_prefix": None and "" are false
PrefixGiven(prefix) == prefix # None /\ prefix # <<>>

\* include_channel
IncludeChannel(channel_name, prefix) ==
    PrefixGiven(prefix) => StartsWith(channel_name, prefix)

\* clean_name
CleanNameOf(channel_name, prefix) ==
    IF PrefixGiven(prefix) /\ StartsWith(channel_name, prefix)
    THEN Strip(Drop(channel_name, Len(prefix)))
    ELSE channel_name

ChannelRecord(name, clean_name, tvg_id, info, url) ==
    [name |-> name, clean_name |-> clean_name, tvg_id |-> tvg_id,
     info |-> info, url |-> url]

\* "if i + 1 < len(lines) and not lines[i + 1].startswith('#')"
HasUrlLine(lines, at) == at + 1 <= Len(lines) /\ ~IsHashLine(lines[at + 1])

\* the body of "for i in range(len(lines))" reaches channels.append
AppendsRecord(lines, at, prefix) ==
    /\ IsExtinf(lines[at])
    /\ NameComma(lines[at]) # 0
    /\ IncludeChannel(ChannelNameOf(lines[at]), prefix)
    /\ HasUrlLine(lines, at)

RecordAt(lines, at, prefix) ==
    ChannelRecord(ChannelNameOf(lines[at]),
                  CleanNameOf(ChannelNameOf(lines[at]), prefix),
                  TvgIdOf(lines[at]), lines[at], Strip(lines[at + 1]))

\* one pass of the loop over the lines
ChannelsAfterLine(channels_so_far, lines, at, prefix) ==
    IF AppendsRecord(lines, at, prefix)
    THEN Append(channels_so_far, RecordAt(lines, at, prefix))
    ELSE channels_so_far

\* the info and url strings load_playlist_from_xml makes up
XmlInfo(channel_id, channel_name) ==
    << "#", "E", "X", "T", "I", "N", "F", ":", "-", "1", " ", "t", "v", "g", "-", "i", "d", "=", "\"" >> \o channel_id \o << "\"", "," >> \o channel_name

XmlUrl(channel_id) == << "#", "E", "X", "T", "U", "R", "L", ":" >> \o channel_id

\* "if display_name.text: display_names.append(display_name.text.strip())"
XmlDisplayNames(e) == StripAll(SelectSeq(e.display_names, LAMBDA d : d # <<>>))

RECURSIVE XmlFrom(_, _)
XmlFrom(elems, k) ==
    IF k > Len(elems) THEN <<>>
    ELSE IF XmlDisplayNames(elems[k]) # <<>>
         THEN << ChannelRecord(XmlDisplayNames(elems[k])[1],
                               XmlDisplayNames(elems[k])[1],
                               elems[k].id,
                               XmlInfo(elems[k].id, XmlDisplayNames(elems[k])[1]),
                               XmlUrl(elems[k].id)) >>
                  \o XmlFrom(elems, k + 1)
         ELSE XmlFrom(elems, k + 1)

load_playlist_from_xml(doc) == XmlFrom(doc.channels, 1)

\* the country filter of the XML branch
PrefixFiltered(chs, prefix) ==
    SelectSeq(chs, LAMBDA ch : StartsWith(ch.name, prefix))

(***************************************************************************)
(* load_playlist_channels as a state machine                               *)
(***************************************************************************)
\* the text of a playlist in the line-oriented format, as content.splitlines()
\* gives it
TextPlaylist(lines) == [format |-> "m3u", lines |-> lines]

\* a playlist the sniffing takes for XML: its channel elements
XmlPlaylist(elems) == [format |-> "xml", channels |-> elems]

LinePool == <<
    << "#", "E", "X", "T", "I", "N", "F", ":", "-", "1", ",", "B", "B", "C" >>,
    << "#", "E", "X", "T", "I", "N", "F", ":", "-", "1", " ", "t", "v", "g", "-", "i", "d", "=", "\"", "x", "\"", ",", "U", "K", ":", " ", "B", "B", "C", " ", "O", "n", "e" >>,
    << "h", "t", "t", "p", ":", "/", "/", "a" >>,
    << "#", "E", "X", "T", "G", "R", "P", ":", "g" >>,
    <<>>,
    << "#", "E", "X", "T", "I", "N", "F", ":", "-", "1" >>,
    << "#", "E", "X", "T", "I", "N", "F", ":", "-", "1", ",", "A", ",", "B" >> >>

\* longest playlist text, in lines
MaxLines == 4

RECURSIVE LineLists(_)
LineLists(n) ==
    IF n = 0 THEN {<<>>}
    ELSE LET shorter == LineLists(n - 1)
         IN  shorter \cup
             {Append(l, LinePool[g]) :
                 l \in {s \in shorter : Len(s) = n - 1},
                 g \in 1..Len(LinePool)}

XmlPool == {
    <<>>,
    << ChannelElem(<< "x" >>, << << "U", "K", ":", " ", "B", "B", "C", " ", "O", "n", "e" >> >>, <<>>, 0),
       ChannelElem(<< "y" >>, << << "B", "B", "C" >> >>, <<>>, 0),
       ChannelElem(<< "z" >>, <<>>, <<>>, 0) >>,
    << ChannelElem(<< "y" >>, << <<>>, << " ", "U", "K", ":", "I", "T", "V", " " >>, << "I", "T", "V" >> >>, <<>>, 0) >> }

Contents ==
    {TextPlaylist(l) : l \in LineLists(MaxLines)}
        \cup {XmlPlaylist(d) : d \in XmlPool}

CountryPrefixArgs == {None, << "U", "K", ":" >>}

InitPlaylist ==
    /\ content \in Contents
    /\ country_prefix \in CountryPrefixArgs
    /\ line_i = 1
    /\ loader_channels = <<>>
    /\ pc = "sniff"
    /\ fuzzLib = Idle
    /\ playlist_channels = <<>>
    /\ epg_files = <<>>
    /\ threshold = DefaultThreshold
    /\ only_perfect = FALSE
    /\ file_idx = 0
    /\ all_matches = <<>>
    /\ match_idx = 0
    /\ consolidated_matches = <<>>
    /\ final_matches = <<>>
    /\ output = <<>>
    /\ emitter = Idle
    /\ InitMatchIdle
    /\ InitCatalogIdle
    /\ InitNormalizerIdle
    /\ InitDriversIdle

loaderFrame == << fuzzLib, playlist_channels, epg_files, threshold, only_perfect,
                  file_idx, all_matches, match_idx, consolidated_matches,
                  final_matches, output, emitter, matchVars, catalogVars,
                  normalizerVars, driverVars, content, country_prefix >>

\* "if content.strip().startswith('<?xml') or '<tv>' in content"
DetectFormat ==
    /\ pc = "sniff"
    /\ pc' = IF content.format = "xml" THEN "xml"
             ELSE IF content.lines = <<>> THEN "done" ELSE "lines"
    /\ UNCHANGED << loaderFrame, line_i, loader_channels >>

\* channels = load_playlist_from_xml(content)
ParseXml ==
    /\ pc = "xml"
    /\ loader_channels' = load_playlist_from_xml(content)
    /\ pc' = IF PrefixGiven(country_prefix) /\ load_playlist_from_xml(content) # <<>>
             THEN "filter" ELSE "done"
    /\ UNCHANGED << loaderFrame, line_i >>

\* "if country_prefix and channels": the filtered list is returned
FilterByPrefix ==
    /\ pc = "filter"
    /\ loader_channels' = PrefixFiltered(loader_channels, country_prefix)
    /\ pc' = "done"
    /\ UNCHANGED << loaderFrame, line_i >>

\* one pass of "for i in range(len(lines))"
ScanLine ==
    /\ pc = "lines"
    /\ line_i <= Len(content.lines)
    /\ loader_channels' = ChannelsAfterLine(loader_channels, content.lines,
                                            line_i, country_prefix)
    /\ line_i' = line_i + 1
    /\ pc' = IF line_i = Len(content.lines) THEN "done" ELSE "lines"
    /\ UNCHANGED loaderFrame

NextPlaylist ==
    \/ DetectFormat
    \/ ParseXml
    \/ FilterByPrefix
    \/ ScanLine

SpecPlaylist == InitPlaylist /\ [][NextPlaylist]_vars

(***************************************************************************)
(* Properties of the playlist loader                                       *)
(***************************************************************************)
TextLoaded == pc = "done" /\ content.format = "m3u"

\* a metadata line with a name that is followed by a line that is not a
\* metadata line
YieldsRecord(lines, k) ==
    /\ IsExtinf(lines[k])
    /\ NameComma(lines[k]) # 0
    /\ k < Len(lines)
    /\ ~IsExtinf(lines[k + 1])

\* the metadata line and the stream reference of every expected record
RECURSIVE ExpectedPairs(_, _)
ExpectedPairs(lines, k) ==
    IF k > Len(lines) THEN <<>>
    ELSE IF YieldsRecord(lines, k)
         THEN << << lines[k], Strip(lines[k + 1]) >> >>
                  \o ExpectedPairs(lines, k + 1)
         ELSE ExpectedPairs(lines, k + 1)

LoadedPairs ==
    [k \in 1..Len(loader_channels) |->
        << loader_channels[k].info, loader_channels[k].url >>]

\* C17: without a prefix, the records of a line-oriented playlist are, in the
\* order of their metadata lines, one for every #EXTINF line with a name
\* whose next line exists and is not an #EXTINF line, with that next line as
\* stream reference; an #EXTINF line followed by an #EXTINF line or by the
\* end of the text gives none.
C17_OneRecordPerMetadataLine ==
    (TextLoaded /\ ~PrefixGiven(country_prefix)) =>
        LoadedPairs = ExpectedPairs(content.lines, 1)

\* the whole loop over the lines, for one prefix argument
RECURSIVE LinesLoaded(_, _, _, _)
LinesLoaded(chs, lines, at, prefix) ==
    IF at > Len(lines) THEN chs
    ELSE LinesLoaded(ChannelsAfterLine(chs, lines, at, prefix), lines, at + 1, prefix)

\* the records the playlist gives when no prefix is supplied
LoadedWithoutPrefix ==
    IF content.format = "xml" THEN load_playlist_from_xml(content)
    ELSE LinesLoaded(<<>>, content.lines, 1, None)

\* what tells a record of a playlist from the others
Entry(ch) == << ch.name, ch.tvg_id, ch.info, ch.url >>

Entries(chs) == [k \in 1..Len(chs) |-> Entry(chs[k])]

PrefixRemoved(name, prefix) == Strip(Drop(name, Len(prefix)))

\* C18: with a region prefix, in both playlist formats, every returned record
\* has a raw name that starts with the prefix and a cleanName that is the raw
\* name without the prefix, and the returned records are all the records of
\* the playlist whose raw name starts with the prefix.
C18_PrefixFiltersAndCleans ==
    (pc = "done" /\ PrefixGiven(country_prefix)) =>
        /\ \A k \in 1..Len(loader_channels) :
              /\ StartsWith(loader_channels[k].name, country_prefix)
              /\ loader_channels[k].clean_name
                    = PrefixRemoved(loader_channels[k].name, country_prefix)
        /\ Entries(loader_channels)
              = Entries(PrefixFiltered(LoadedWithoutPrefix, country_prefix))

(***************************************************************************)
(* The two normalizers applied to a name, and to their own results         *)
(***************************************************************************)
NamePieces == << << "E", "S", "P", "N" >>, << "e", "s", "p", "n" >>, << "H", "D" >>, << "h", "d" >>, << "T", "V" >>, << "U", "K", ":" >>, << " " >>, << "-" >>,
                 << "&" >> >>

\* longest name, in pieces
MaxPieces == 3

RECURSIVE PieceLists(_)
PieceLists(n) ==
    IF n = 0 THEN {<<>>}
    ELSE LET shorter == PieceLists(n - 1)
         IN  shorter \cup
             {Append(l, NamePieces[g]) :
                 l \in {s \in shorter : Len(s) = n - 1},
                 g \in 1..Len(NamePieces)}

RawNames == {Flatten(l) : l \in PieceLists(MaxPieces)}

\* how many times each normalizer is applied, every time to its last result
MaxApplications == 2

InitNormalize ==
    /\ raw_name \in RawNames
    /\ normalized = [clean_channel_name |-> <<>>, normalize_channel_name |-> <<>>]
    /\ fuzzLib = Idle
    /\ InitMatchIdle
    /\ InitPipelineIdle
    /\ InitCatalogIdle
    /\ InitLoaderIdle
    /\ InitDriversIdle

normalizeFrame == << fuzzLib, matchVars, pipelineVars, catalogVars, loaderVars,
                     driverVars, raw_name >>

\* the argument of the next call: the name, then the last result
NextArgument(results) == IF results = <<>> THEN raw_name ELSE results[Len(results)]

\* name = clean_channel_name(name)
CallCleanChannelName ==
    /\ Len(normalized.clean_channel_name) < MaxApplications
    /\ normalized' = [normalized EXCEPT !.clean_channel_name =
          Append(@, clean_channel_name(NextArgument(normalized.clean_channel_name)))]
    /\ UNCHANGED normalizeFrame

\* name = normalize_channel_name(name)
CallNormalizeChannelName ==
    /\ Len(normalized.normalize_channel_name) < MaxApplications
    /\ normalized' = [normalized EXCEPT !.normalize_channel_name =
          Append(@, normalize_channel_name(
                        NextArgument(normalized.normalize_channel_name)))]
    /\ UNCHANGED normalizeFrame

NextNormalize == CallCleanChannelName \/ CallNormalizeChannelName

SpecNormalize == InitNormalize /\ [][NextNormalize]_vars

(***************************************************************************)
(* Properties of the normalizers                                           *)
(***************************************************************************)
Idempotent(results) == Len(results) = 2 => results[2] = results[1]

\* C19: each normalizer applied to its own result gives that result again,
\* for every name: clean_channel_name(clean_channel_name(x)) is
\* clean_channel_name(x), and the same for normalize_channel_name.
C19_NormalizersAreIdempotent ==
    /\ Idempotent(normalized.clean_channel_name)
    /\ Idempotent(normalized.normalize_channel_name)

EspnNames == { << "E", "S", "P", "N", " ", "H", "D" >>, << "E", "S", "P", "N" >>, << "e", "s", "p", "n", "-", "h", "d" >> }

\* C20: under each normalizer the names "ESPN HD", "ESPN" and "espn-hd" have
\* one and the same normal form.
C20_EspnNamesAgree ==
    raw_name \in EspnNames =>
        /\ normalized.clean_channel_name # <<>> =>
              \A n \in EspnNames :
                  normalized.clean_channel_name[1] = clean_channel_name(n)
        /\ normalized.normalize_channel_name # <<>> =>
              \A n \in EspnNames :
                  normalized.normalize_channel_name[1] = normalize_channel_name(n)

(***************************************************************************)
(* Properties of the catalog index                                         *)
(***************************************************************************)
\* the catalog element lists load_channel_mappings makes the index from
LoadedFrom == {l \in CatalogLists(MaxCatalog) : load_channel_mappings(l) = channel_mappings}

Stored(e) == e.site_id # "" /\ Strip(e.text) # <<>>

KeyOf(e) == normalize_channel_name(Strip(e.text))

\* the last stored element of the list with the key of e
LastWithKey(l, e) ==
    l[Max({i \in 1..Len(l) : Stored(l[i]) /\ KeyOf(l[i]) = KeyOf(e)})]

\* what a similarity scan can return: the entries the scan ranges over
Scannable == {channel_mappings[i].value : i \in 1..Len(channel_mappings)}

\* C21: of the catalog entries with one normalized key the exact lookup
\* gives the one loaded last, and every loaded entry, the earlier ones
\* included, is among the entries the similarity scan ranges over.
C21_ShadowedEntriesStayScannable ==
    \A l \in LoadedFrom : \A i \in 1..Len(l) :
        Stored(l[i]) =>
            /\ Lookup(channel_mappings, KeyOf(l[i])) = mapping_data(LastWithKey(l, l[i]))
            /\ mapping_data(l[i]) \in Scannable

\* C29: a playlist channel whose normalized name is empty is never reported
\* as a direct match by the catalog matcher.
C29_EmptyNameNeverDirect ==
    \A i \in 1..Len(matches) :
        normalize_channel_name(matches[i].playlist_channel.name) = <<>>
            => matches[i].match_type # "direct"

(***************************************************************************)
(* create_channel_list.main: match, report the unmatched channels, write   *)
(* the channel list; then the written list is read back by the playlist    *)
(* loader of match_channels.py                                             *)
(***************************************************************************)
StreamUrl == << "h", "t", "t", "p", ":", "/", "/", "a" >>

\* the "#EXTINF" line of a playlist entry
ExtinfLine(tvg_id, name) == XmlInfo(tvg_id, name)

\* the record load_playlist_channels makes of the two lines of a channel
ListedChannel(name, tvg_id, prefix) ==
    RecordAt(<< ExtinfLine(tvg_id, name), StreamUrl >>, 1, prefix)

\* the name as the playlist has it
Prefixed(name, prefix) ==
    IF PrefixGiven(prefix) THEN prefix \o << " " >> \o name ELSE name

\* (name, tvg-id) of the entries of the playlists of the run
ListedEntries == {
    << << << "S", "k", "y", " ", "2" >>, << "s", "k", "y", "2" >> >>, << << "Z", "e", "d" >>, <<>> >>, << << "A", "l", "p", "h", "a", "&", "C", "o" >>, <<>> >> >>,
    << << << "S", "k", "y", " ", "1", "1" >>, << "s", "1", "1", ".", "t", "v" >> >> >>,
    << << << "S", "k", "y", "&", "2" >>, <<>> >>, << << "S", "k", "y", " ", "2" >>, <<>> >> >> }

ListedPlaylists(prefix) ==
    {[i \in 1..Len(l) |-> ListedChannel(Prefixed(l[i][1], prefix), l[i][2], prefix)] :
        l \in ListedEntries}

\* a report left at the path by an earlier run
StaleReport == [count |-> 1, names |-> << << "O", "l", "d" >> >>]

InitChannelList ==
    /\ country_prefix \in CountryPrefixArgs
    /\ playlist_channels \in ListedPlaylists(country_prefix)
    /\ channel_mappings \in {load_channel_mappings(l) :
                               l \in CatalogLists(MaxCatalog) \ {<<>>}}
    /\ unmatched_log \in {Absent, StaleReport}
    /\ output_file = Absent
    /\ returned = <<>>
    /\ matches = <<>>
    /\ loader_channels = <<>>
    /\ pc = "match"
    /\ units = <<>>
    /\ futures = <<>>
    /\ content = <<>>
    /\ line_i = 0
    /\ fuzzLib = Idle
    /\ epg_files = <<>>
    /\ threshold = DefaultThreshold
    /\ only_perfect = FALSE
    /\ file_idx = 0
    /\ all_matches = <<>>
    /\ match_idx = 0
    /\ consolidated_matches = <<>>
    /\ final_matches = <<>>
    /\ output = <<>>
    /\ emitter = Idle
    /\ InitMatchIdle
    /\ InitNormalizerIdle
    /\ InitConsolidateIdle
    /\ InitCountriesIdle

channelListFrame == << fuzzLib, playlist_channels, channel_mappings, epg_files,
                       threshold, only_perfect, file_idx, all_matches, match_idx,
                       consolidated_matches, final_matches, output, emitter,
                       matchVars, units, futures, content, country_prefix,
                       line_i, normalizerVars, consolidateVars, countryVars >>

\* a finished call: the callee, what became of its write, the value returned
Call(callee, outcome, value) ==
    [call |-> callee, outcome |-> outcome, value |-> value]

\* matches = match_channels(playlist_channels, channel_mappings)
MatchAgainstCatalog ==
    /\ pc = "match"
    /\ matches' = [i \in 1..Len(playlist_channels) |->
                      process_channel(playlist_channels[i], channel_mappings)]
    /\ pc' = "export"
    /\ UNCHANGED << channelListFrame, unmatched_log, output_file, returned,
                    loader_channels >>

\* unmatched = [m['playlist_channel']['name'] for m in matches if m['match_type'] == 'none']
UnmatchedOf(ms) ==
    LET none == SelectSeq(ms, LAMBDA m : m.match_type = "none")
    IN  [i \in 1..Len(none) |-> none[i].playlist_channel.name]

\* the header with len(unmatched), then sorted(unmatched), one name per line
UnmatchedReport(unmatched) ==
    [count |-> Len(unmatched), names |-> SortedList(unmatched)]

\* export_unmatched_channels(matches, args.unmatched_log): the function has
\* no return statement with a value
ExportUnmatchedChannels ==
    /\ pc = "export"
    /\ \E outcome \in IF UnmatchedOf(matches) = <<>> THEN {"skipped"}
                      ELSE {"written", "failed"} :
          /\ unmatched_log' = IF outcome = "written"
                              THEN UnmatchedReport(UnmatchedOf(matches))
                              ELSE unmatched_log
          /\ returned' = Append(returned,
                                Call("export_unmatched_channels", outcome, "None"))
    /\ pc' = "generate"
    /\ UNCHANGED << channelListFrame, matches, output_file, loader_channels >>

\* "if match['mapping']"
Mapped(ms) == SelectSeq(ms, LAMBDA m : m.mapping # None)

\* mapping['xmltv_id'] or channel['tvg_id'] or ''
XmltvIdOf(mapping, ch) ==
    IF mapping.xmltv_id # <<>> THEN mapping.xmltv_id ELSE ch.tvg_id

\* channel_text
ChannelText(ch, prefix) ==
    IF PrefixGiven(prefix) /\ ~StartsWith(ch.name, prefix)
    THEN prefix \o << " " >> \o ch.name
    ELSE ch.name

\* channel_line: the attributes and the text, written without escaping
ChannelLine(match, prefix) ==
    [site |-> match.mapping.site, lang |-> match.mapping.lang,
     xmltv_id |-> XmltvIdOf(match.mapping, match.playlist_channel),
     site_id |-> match.mapping.site_id,
     text |-> ChannelText(match.playlist_channel, prefix)]

\* the lines between "<channels>" and "</channels>"
ChannelListLines(ms, prefix) ==
    [i \in 1..Len(Mapped(ms)) |-> ChannelLine(Mapped(ms)[i], prefix)]

\* generate_channel_list_xml(matches, args.output_file, args.country_prefix)
GenerateChannelListXml ==
    /\ pc = "generate"
    /\ \E outcome \in {"written", "failed"} :
          /\ output_file' = IF outcome = "written"
                            THEN [root |-> "channels",
                                  lines |-> ChannelListLines(matches, country_prefix)]
                            ELSE output_file
          /\ returned' = Append(returned,
                                Call("generate_channel_list_xml", outcome,
                                     IF outcome = "written" THEN "True" ELSE "False"))
    /\ pc' = "reload"
    /\ UNCHANGED << channelListFrame, matches, unmatched_log, loader_channels >>

\* ET.fromstring accepts the text: no line holds a bare "&"
WellFormed(file) ==
    \A i \in 1..Len(file.lines) :
        "&" \notin Range(file.lines[i].text) \cup Range(file.lines[i].xmltv_id)

\* what root.findall(".//channel") finds in the written text: elements
\* without an id attribute and without a display-name child
ParsedChannelList(file) ==
    [i \in 1..Len(file.lines) |-> ChannelElem(<<>>, <<>>, <<>>, 0)]

\* match_channels.load_playlist_channels(output_file): the text starts with
\* "<?xml", so load_playlist_from_xml reads it
ReloadedChannels(file) ==
    IF file = Absent THEN <<>>
    ELSE IF ~WellFormed(file) THEN <<>>
    ELSE load_playlist_from_xml(XmlPlaylist(ParsedChannelList(file)))

ReloadChannelList ==
    /\ pc = "reload"
    /\ loader_channels' = ReloadedChannels(output_file)
    /\ pc' = "done"
    /\ UNCHANGED << channelListFrame, matches, unmatched_log, output_file,
                    returned >>

NextChannelList ==
    \/ MatchAgainstCatalog
    \/ ExportUnmatchedChannels
    \/ GenerateChannelListXml
    \/ ReloadChannelList

SpecChannelList == InitChannelList /\ [][NextChannelList]_vars

\* C22: reading the written channel list back through the XML playlist
\* loader gives records whose names are the texts of the written elements.
C22_RoundTripKeepsNames ==
    (pc = "done" /\ output_file # Absent) =>
        {loader_channels[i].name : i \in 1..Len(loader_channels)}
            = {output_file.lines[i].text : i \in 1..Len(output_file.lines)}

\* C23: an emitter whose write failed has returned false, and an emitter
\* has returned true only when it wrote its document.
C23_EmittersReturnSuccessFlag ==
    \A i \in 1..Len(returned) :
        /\ returned[i].outcome = "failed" => returned[i].value = "False"
        /\ returned[i].value = "True" => returned[i].outcome = "written"

\* C25: once export_unmatched_channels has run without a write failure, the
\* report holds the sorted names of the unmatched channels and their count,
\* also when there is none.
C25_ReportListsUnmatchedSorted ==
    (/\ Len(returned) >= 1
     /\ returned[1].call = "export_unmatched_channels"
     /\ returned[1].outcome # "failed")
        => unmatched_log = UnmatchedReport(UnmatchedOf(matches))

(***************************************************************************)
(* consolidate_epg_files (match_channels.py and epg_matcher.py)            *)
(***************************************************************************)
\* an EPG file with the attributes of its root element; a file that is not
\* well formed makes ET.parse raise
SourceFile(f, attrib, well_formed) ==
    [path |-> f.path, basename |-> f.basename, exists |-> f.exists,
     channels |-> f.channels, programmes |-> f.programmes,
     attrib |-> attrib, well_formed |-> well_formed]

SourcePool == <<
    SourceFile(FilePool[1], {<< "source-info-name", "A" >>,
                             << "generator-info-name", "grabber" >>}, TRUE),
    SourceFile(FilePool[2], {}, TRUE),
    SourceFile(FilePool[3], {<< "date", "1" >>}, TRUE),
    SourceFile(FilePool[4], {}, TRUE),
    SourceFile(EpgFile("b", "bad.xml", TRUE, <<>>, <<>>), {}, FALSE) >>

\* the argument output_file
ConsolidatedPath == << "out", "consolidated.xml" >>

\* longest list of files given to consolidate_epg_files
MaxSources == 3

RECURSIVE SourceLists(_)
SourceLists(n) ==
    IF n = 0 THEN {<<>>}
    ELSE LET shorter == SourceLists(n - 1)
         IN  shorter \cup
             {Append(l, SourcePool[g]) :
                 l \in {x \in shorter : Len(x) = n - 1},
                 g \in 1..Len(SourcePool)}

InitConsolidate ==
    /\ epg_files \in SourceLists(MaxSources)
    /\ emitter \in Emitters
    /\ new_root = None
    /\ channel_ids = {}
    /\ file_idx = 0
    /\ output_file = Absent
    /\ returned = <<>>
    /\ pc = "call"
    /\ unmatched_log = Absent
    /\ fuzzLib = Idle
    /\ playlist_channels = <<>>
    /\ threshold = DefaultThreshold
    /\ only_perfect = FALSE
    /\ all_matches = <<>>
    /\ match_idx = 0
    /\ consolidated_matches = <<>>
    /\ final_matches = <<>>
    /\ output = <<>>
    /\ InitMatchIdle
    /\ InitCatalogIdle
    /\ InitLoaderIdle
    /\ InitNormalizerIdle
    /\ InitCountriesIdle

consolidateFrame == << fuzzLib, playlist_channels, epg_files, threshold,
                       only_perfect, all_matches, match_idx, consolidated_matches,
                       final_matches, output, emitter, matchVars, catalogVars,
                       loaderVars, normalizerVars, countryVars, unmatched_log >>

\* "if not epg_files: return None"
ReturnNoFiles ==
    /\ pc = "call"
    /\ epg_files = <<>>
    /\ returned' = Append(returned, Call("consolidate_epg_files", "skipped", None))
    /\ pc' = "done"
    /\ UNCHANGED << consolidateFrame, new_root, channel_ids, file_idx, output_file >>

\* "if len(epg_files) == 1: return epg_files[0]"
ReturnOnlyFile ==
    /\ pc = "call"
    /\ Len(epg_files) = 1
    /\ returned' = Append(returned,
                          Call("consolidate_epg_files", "skipped",
                               [path |-> epg_files[1].path]))
    /\ pc' = "done"
    /\ UNCHANGED << consolidateFrame, new_root, channel_ids, file_idx, output_file >>

\* new_root = ET.Element('tv'); new_root.set('generator-info-name', ...)
CreateRoot ==
    /\ pc = "call"
    /\ Len(epg_files) >= 2
    /\ new_root' = [attrib |-> {<< "generator-info-name",
                                   "Consolidated EPG Generator" >>},
                    children |-> <<>>]
    /\ channel_ids' = {}
    /\ file_idx' = 1
    /\ pc' = "files"
    /\ UNCHANGED << consolidateFrame, output_file, returned >>

\* ET.parse(file_path) returns a tree
Parses(f) == f.exists /\ f.well_formed

\* "if not new_root.attrib: for attr, value in root.attrib.items(): ..."
AttributesAfter(attrib, root_attrib) ==
    IF attrib = {} THEN {a \in root_attrib : a[1] # "generator-info-name"}
    ELSE attrib

\* match_channels.py: "if channel_id not in channel_ids";
\* epg_matcher.py: "Always add the channel"
KeepsEveryChannel(channel_id, ids, module) == TRUE

KeepsChannel(channel_id, ids, module) ==
    module = "epg_matcher" \/ channel_id \notin ids

Child(tag, element) == [tag |-> tag, element |-> element]

\* the children appended by "for channel in root.findall('.//channel')"
RECURSIVE ChannelsAdded(_, _, _, _)
ChannelsAdded(elems, k, ids, module) ==
    IF k > Len(elems) THEN <<>>
    ELSE IF KeepsChannel(elems[k].id, ids, module)
         THEN << Child("channel", elems[k]) >>
                  \o ChannelsAdded(elems, k + 1, ids \cup {elems[k].id}, module)
         ELSE ChannelsAdded(elems, k + 1, ids, module)

\* the children appended by "for program in root.findall('.//programme')"
ProgrammesAdded(progs) == [k \in 1..Len(progs) |-> Child("programme", progs[k])]

\* one pass of "for file_path in epg_files" over a file that parses
ProcessFile ==
    /\ pc = "files"
    /\ file_idx <= Len(epg_files)
    /\ Parses(epg_files[file_idx])
    /\ new_root' =
          [attrib |-> AttributesAfter(new_root.attrib, epg_files[file_idx].attrib),
           children |-> new_root.children
                          \o ChannelsAdded(epg_files[file_idx].channels, 1,
                                           channel_ids, emitter)
                          \o ProgrammesAdded(epg_files[file_idx].programmes)]
    /\ channel_ids' = channel_ids
                        \cup {epg_files[file_idx].channels[k].id :
                                k \in 1..Len(epg_files[file_idx].channels)}
    /\ file_idx' = file_idx + 1
    /\ UNCHANGED << consolidateFrame, output_file, returned, pc >>

\* ET.parse raises inside the one try block of the function: "return None"
AbortOnParseError ==
    /\ pc = "files"
    /\ file_idx <= Len(epg_files)
    /\ ~Parses(epg_files[file_idx])
    /\ returned' = Append(returned, Call("consolidate_epg_files", "aborted", None))
    /\ pc' = "done"
    /\ UNCHANGED << consolidateFrame, new_root, channel_ids, file_idx, output_file >>

\* new_tree.write(f, ...); return output_file -- or the except branch
WriteConsolidated ==
    /\ pc = "files"
    /\ file_idx > Len(epg_files)
    /\ \E outcome \in {"written", "failed"} :
          /\ output_file' = IF outcome = "written" THEN new_root ELSE output_file
          /\ returned' = Append(returned,
                                Call("consolidate_epg_files", outcome,
                                     IF outcome = "written"
                                     THEN [path |-> ConsolidatedPath]
                                     ELSE None))
    /\ pc' = "done"
    /\ UNCHANGED << consolidateFrame, new_root, channel_ids, file_idx >>

NextConsolidate ==
    \/ ReturnNoFiles
    \/ ReturnOnlyFile
    \/ CreateRoot
    \/ ProcessFile
    \/ AbortOnParseError
    \/ WriteConsolidated

SpecConsolidate == InitConsolidate /\ [][NextConsolidate]_vars

\* the call of consolidate_epg_files has returned
Consolidated == pc = "done" /\ Len(returned) = 1

\* the elements with the given tag under the written root, in document order
ChildrenOf(doc, tag) ==
    LET chosen == SelectSeq(doc.children, LAMBDA c : c.tag = tag)
    IN  [k \in 1..Len(chosen) |-> chosen[k].element]

\* the programme elements of all files, in list order
AllProgrammes == Flatten([i \in 1..Len(epg_files) |-> epg_files[i].programmes])

\* the first channel element with the id, in list order and document order
FirstWithId(id) ==
    LET i == Min({j \in 1..Len(epg_files) :
                    \E k \in 1..Len(epg_files[j].channels) :
                        epg_files[j].channels[k].id = id})
    IN  epg_files[i].channels[FindChannel(epg_files[i], id)]

\* C27: consolidate_epg_files of match_channels.py returns None for no file
\* and the path of the file for one file, writing nothing; for two or more
\* files the written document has one channel element per id, the first one
\* in list order, and every programme element of every file.
C27_FirstChannelPerIdAllProgrammes ==
    (Consolidated /\ emitter = "match_channels") =>
        /\ epg_files = <<>> =>
              returned[1].value = None /\ output_file = Absent
        /\ Len(epg_files) = 1 =>
              returned[1].value = [path |-> epg_files[1].path] /\ output_file = Absent
        /\ (Len(epg_files) >= 2 /\ returned[1].outcome = "written") =>
              /\ returned[1].value = [path |-> ConsolidatedPath]
              /\ \A i, j \in 1..Len(ChildrenOf(output_file, "channel")) :
                    ChildrenOf(output_file, "channel")[i].id
                        = ChildrenOf(output_file, "channel")[j].id => i = j
              /\ \A i \in 1..Len(ChildrenOf(output_file, "channel")) :
                    ChildrenOf(output_file, "channel")[i]
                        = FirstWithId(ChildrenOf(output_file, "channel")[i].id)
              /\ {ChildrenOf(output_file, "channel")[i].id :
                     i \in 1..Len(ChildrenOf(output_file, "channel"))}
                    = UNION {{epg_files[i].channels[k].id :
                                 k \in 1..Len(epg_files[i].channels)} :
                               i \in 1..Len(epg_files)}
              /\ ChildrenOf(output_file, "programme") = AllProgrammes

\* three files written into one document: an id of the first file comes
\* again in the third, and an id comes twice within the second file
C27_Witness ==
    /\ Consolidated
    /\ emitter = "match_channels"
    /\ Len(epg_files) = 3
    /\ returned[1].outcome = "written"
    /\ \E k \in 1..Len(epg_files[3].channels) :
          /\ epg_files[3].channels[k].id = epg_files[1].channels[1].id
          /\ epg_files[3].channels[k] # epg_files[1].channels[1]
    /\ \E k, l \in 1..Len(epg_files[2].channels) :
          k # l /\ epg_files[2].channels[k].id = epg_files[2].channels[l].id
    /\ Len(ChildrenOf(output_file, "programme")) > 0

\* C24: when one of several existing EPG files is malformed, only that file
\* is skipped: a document is written that holds the programmes of the files
\* that parse.
C24_MalformedFileIsSkipped ==
    (/\ Consolidated
     /\ Len(epg_files) >= 2
     /\ \A i \in 1..Len(epg_files) : epg_files[i].exists
     /\ returned[1].outcome # "failed")
        => /\ output_file # Absent
           /\ ChildrenOf(output_file, "programme")
                 = Flatten([i \in 1..Len(epg_files) |->
                               IF Parses(epg_files[i])
                               THEN epg_files[i].programmes ELSE <<>>])

\* C26: in the written document every channel element precedes every
\* programme element.
C26_ChannelsPrecedeProgrammes ==
    (Consolidated /\ output_file # Absent) =>
        \A i, j \in 1..Len(output_file.children) :
            (/\ output_file.children[i].tag = "programme"
             /\ output_file.children[j].tag = "channel") => j < i

\* C28: the root of the written document carries every root attribute of
\* the first file other than generator-info-name.
C28_RootAttributesOfFirstFile ==
    (Consolidated /\ output_file # Absent) =>
        \A a \in epg_files[1].attrib :
            a[1] # "generator-info-name" => a \in output_file.attrib

(***************************************************************************)
(* process_countries.main                                                  *)
(***************************************************************************)
\* the keys of country_mappings, in the order of epg_sources.json
country_mappings == << "UK", "US" >>

\* the names a user gives after --countries
CountryArgs == {"UK", "US", "XX"}

\* longest list given after --countries
MaxCountries == 3

RECURSIVE CountryLists(_)
CountryLists(n) ==
    IF n = 0 THEN {<<>>}
    ELSE LET shorter == CountryLists(n - 1)
         IN  shorter \cup
             {Append(l, c) : l \in {x \in shorter : Len(x) = n - 1},
                             c \in CountryArgs}

\* args.countries: one name or more; without the option it is None, which
\* the empty list stands for ("if args.countries" is false for it)
CountriesArgument == CountryLists(MaxCountries)

\* how a run of the match_channels.py subprocess ends
SubprocessEnds == {"exit 0", "exit 1", "raised"}

InitCountries ==
    /\ countries_to_process = <<>>
    /\ country_idx = 0
    /\ successful_countries = <<>>
    /\ failed_countries = <<>>
    /\ returned = <<>>
    /\ pc = "args"
    /\ unmatched_log = Absent
    /\ output_file = Absent
    /\ fuzzLib = Idle
    /\ playlist_channels = <<>>
    /\ epg_files = <<>>
    /\ threshold = DefaultThreshold
    /\ only_perfect = FALSE
    /\ file_idx = 0
    /\ all_matches = <<>>
    /\ match_idx = 0
    /\ consolidated_matches = <<>>
    /\ final_matches = <<>>
    /\ output = <<>>
    /\ emitter = Idle
    /\ InitMatchIdle
    /\ InitCatalogIdle
    /\ InitLoaderIdle
    /\ InitNormalizerIdle
    /\ InitConsolidateIdle

countriesFrame == << fuzzLib, playlist_channels, epg_files, threshold,
                     only_perfect, file_idx, all_matches, match_idx,
                     consolidated_matches, final_matches, output, emitter,
                     matchVars, catalogVars, loaderVars, normalizerVars,
                     consolidateVars, unmatched_log, output_file >>

\* countries_to_process = args.countries if args.countries else list(country_mappings.keys())
DetermineCountries ==
    /\ pc = "args"
    /\ \E countries \in CountriesArgument :
          countries_to_process' = IF countries = <<>> THEN country_mappings
                                  ELSE countries
    /\ country_idx' = 1
    /\ pc' = "loop"
    /\ UNCHANGED << countriesFrame, successful_countries, failed_countries,
                    returned >>

\* the value of run_match_channels: False for a non-zero exit code and for
\* an exception of subprocess.run
RunSucceeds(ends) == ends = "exit 0"

\* a loop without the next iteration after a failure
StopAfterFailure(ok) ==
    IF ok THEN country_idx + 1 ELSE Len(countries_to_process) + 1

\* "for country in countries_to_process": the position after this pass
NextCountry(ok) == country_idx + 1

\* "if country in country_mappings: if run_match_channels(...)"
ProcessKnownCountry ==
    /\ pc = "loop"
    /\ country_idx <= Len(countries_to_process)
    /\ countries_to_process[country_idx] \in Range(country_mappings)
    /\ \E ends \in SubprocessEnds :
          /\ successful_countries' =
                IF RunSucceeds(ends)
                THEN Append(successful_countries, countries_to_process[country_idx])
                ELSE successful_countries
          /\ failed_countries' =
                IF RunSucceeds(ends) THEN failed_countries
                ELSE Append(failed_countries, countries_to_process[country_idx])
          /\ returned' = Append(returned,
                                Call("run_match_channels", ends,
                                     IF RunSucceeds(ends) THEN "True" ELSE "False"))
          /\ country_idx' = NextCountry(RunSucceeds(ends))
    /\ UNCHANGED << countriesFrame, countries_to_process, pc >>

\* "else: failed_countries.append(country)"
RecordUnknownCountry ==
    /\ pc = "loop"
    /\ country_idx <= Len(countries_to_process)
    /\ countries_to_process[country_idx] \notin Range(country_mappings)
    /\ failed_countries' = Append(failed_countries, countries_to_process[country_idx])
    /\ country_idx' = NextCountry(FALSE)
    /\ UNCHANGED << countriesFrame, countries_to_process, successful_countries,
                    returned, pc >>

\* the loop is over: the summary is printed
PrintSummary ==
    /\ pc = "loop"
    /\ country_idx > Len(countries_to_process)
    /\ pc' = "summary"
    /\ UNCHANGED << countriesFrame, countryVars, returned >>

NextCountries ==
    \/ DetermineCountries
    \/ ProcessKnownCountry
    \/ RecordUnknownCountry
    \/ PrintSummary

SpecCountries == InitCountries /\ [][NextCountries]_vars

\* main is one thread of straight-line code: it takes its next step whenever
\* it has one, and subprocess.run returns or raises (the subprocess ends)
SpecCountriesFair == SpecCountries /\ WF_vars(NextCountries)

\* the entries of the first n requested countries that the labelling marks b
Picked(labelling, n, b) ==
    LET at == SelectSeq([k \in 1..n |-> k], LAMBDA k : labelling[k] = b)
    IN  [j \in 1..Len(at) |-> countries_to_process[at[j]]]

\* the two lists split the first n positions of the request, in list order
SplitInOrder(n) ==
    \E labelling \in [1..n -> BOOLEAN] :
        /\ successful_countries = Picked(labelling, n, TRUE)
        /\ failed_countries = Picked(labelling, n, FALSE)
        /\ \A k \in 1..n :
              countries_to_process[k] \notin Range(country_mappings)
                  => ~labelling[k]

\* the loop has visited every position
LoopOver == pc = "summary" /\ country_idx = Len(countries_to_process) + 1

====
